---- MODULE Spec2Model ----
(***************************************************************************)
(* Framebuffer cache and eviction engine of the DRM display interface      *)
(* (FramebufferManager): per-layer buckets of kernel framebuffers, the     *)
(* reclaim list mCleanBuffers and the RemoveFBsThread that drains it.       *)
(*                                                                         *)
(* Three threads take steps: the producer (getBuffer, checkShrink, flip,   *)
(* releaseAll), a client thread (cleanup, uncacheLayerBuffers,             *)
(* destroyAllSecureBuffers) and the reclaimer.  A call is one step, except *)
(* getBuffer, which takes mMutex twice (lookup, insertion) and is two      *)
(* steps, and the reclaimer loop, which is one step per mutex section.     *)
(*                                                                         *)
(* Atomic commit and mode switch (DrmModeAtomicReq, ModeState,             *)
(* setActiveConfigWithConstraints, setActiveConfig, deliverWinConfigData): *)
(* the producer thread builds one transaction per call; a call is one step *)
(* up to its drmReq.commit, one step for the commit, one for the code      *)
(* after it and one for the transaction's destructor.                      *)
(***************************************************************************)
EXTENDS Integers, Sequences, FiniteSets, TLC

(* ------------------------------ bounds --------------------------------- *)

\* number of kernel framebuffers drmModeAddFB2WithModifiers hands out in a run
\* of Spec
MaxFb == 2

\* number of kernel framebuffers drmModeAddFB2WithModifiers hands out in a run
\* of SpecFrames
MaxFrameFb == 3

\* number of property blobs CreatePropertyBlob hands out in a run of SpecMode
MaxBlob == 3

\* vsync intervals and idle periods of a behaviour of SpecVsync
MaxVsync == 3

(* --------------------------- program constants ------------------------- *)

MAX_PLANE_NUM == 3

MAX_CACHED_LAYERS == 1

MAX_CACHED_SECURE_LAYERS == 1

MAX_CACHED_BUFFERS_PER_LAYER == 2

MAX_CACHED_SECURE_BUFFERS_PER_LAYER == 1

(* ------------------------------ inputs --------------------------------- *)

NullLayer == "null"

Layers == {"L1"}

Owners == Layers \cup {NullLayer}

\* iteration order of std::map<const ExynosLayer *, FBList> (nullptr first)
LayerOrder == <<"null", "L1">>

BufferIds == {0, 1}

Config(layer, state, format, buffer_id, protection) ==
    [layer |-> layer, state |-> state, format |-> format, buffer_id |-> buffer_id,
     protection |-> protection]

\* the exynos_win_config_data values getBuffer is called with in Spec: a buffer
\* of the layer, protected buffers of the layer, a buffer without a layer
\* (writeback), a rounded-corner buffer of a wrong format, an unknown format
\* and a disabled window
Configs ==
    {Config("L1", "WIN_STATE_BUFFER", "RGBA", 1, FALSE),
     Config("L1", "WIN_STATE_BUFFER", "RGBA", 0, TRUE),
     Config("L1", "WIN_STATE_BUFFER", "NV12M", 1, TRUE),
     Config(NullLayer, "WIN_STATE_BUFFER", "RGBA", 1, FALSE),
     Config(NullLayer, "WIN_STATE_RCD", "RGBA", 0, FALSE),
     Config("L1", "WIN_STATE_BUFFER", "UNKNOWN", 1, FALSE),
     Config("L1", "WIN_STATE_DISABLED", "RGBA", 0, FALSE)}

\* the configs of SpecFrames: a solid color and three protected buffers of
\* the layer, a protected buffer without a layer and the writeback buffer
\* (no layer, buffer_id 0)
FrameConfigs ==
    {Config("L1", "WIN_STATE_COLOR", "RGBA", 0, FALSE),
     Config(NullLayer, "WIN_STATE_BUFFER", "RGBA", 0, FALSE),
     Config("L1", "WIN_STATE_BUFFER", "RGBA", 0, TRUE),
     Config("L1", "WIN_STATE_BUFFER", "RGBA", 1, TRUE),
     Config("L1", "WIN_STATE_BUFFER", "NV12M", 1, TRUE),
     Config(NullLayer, "WIN_STATE_BUFFER", "RGBA", 1, TRUE)}

NoConfig == Config(NullLayer, "WIN_STATE_DISABLED", "UNKNOWN", 0, FALSE)

\* config.dst.w and config.dst.h of a solid color window
DstW == 1

DstH == 1

(* --------------------------- value types ------------------------------- *)

\* Framebuffer::BufferDesc{bufferId, drmFormat, isSecure}
BufferDesc(bufferId, drmFormat, isSecure) ==
    [kind |-> "buffer", bufferId |-> bufferId, drmFormat |-> drmFormat,
     isSecure |-> isSecure, width |-> 0, height |-> 0]

\* Framebuffer::SolidColorDesc{width, height}
SolidColorDesc(width, height) ==
    [kind |-> "color", bufferId |-> 0, drmFormat |-> "NONE",
     isSecure |-> FALSE, width |-> width, height |-> height]

\* new Framebuffer(mDrmFd, fbId, desc)
Framebuffer(id, desc) == [fbId |-> id, desc |-> desc]

\* halFormatToExynosFormat: the format table entry of a HAL format
halFormatToExynosFormat(format) ==
    CASE format = "RGBA"  -> [known |-> TRUE, drmFormat |-> "AB24", bufferNum |-> 1, planeNum |-> 1]
      [] format = "NV12M" -> [known |-> TRUE, drmFormat |-> "NV12", bufferNum |-> 2, planeNum |-> 2]
      [] format = "C8"    -> [known |-> TRUE, drmFormat |-> "C8", bufferNum |-> 1, planeNum |-> 1]
      [] OTHER            -> [known |-> FALSE, drmFormat |-> "UNDEFINED", bufferNum |-> 0, planeNum |-> 0]

\* the descriptor sets uncacheLayerBuffers builds from its buffers
UncacheSets ==
    {{BufferDesc(1, "AB24", FALSE)},
     {BufferDesc(1, "AB24", TRUE)},
     {BufferDesc(0, "AB24", TRUE)},
     {BufferDesc(1, "NV12", TRUE), BufferDesc(0, "NV12", TRUE)},
     {BufferDesc(0, "AB24", TRUE), BufferDesc(1, "NV12", TRUE)}}

(* ------------------------------ state ---------------------------------- *)

VARIABLES
    mCachedLayerBuffers,        \* map layer -> FBList (non-secure)
    mCachedSecureLayerBuffers,  \* map layer -> FBList (secure)
    mCleanBuffers,              \* reclaim list
    cleanupBuffers,             \* local list of removeFBsThreadRoutine
    mCacheShrinkPending,
    mCacheSecureShrinkPending,
    mCachedLayersInuse,
    mCachedSecureLayersInuse,
    mRmFBThreadRunning,
    pcP,                        \* producer thread: idle, insert; in
                                \* ~FramebufferManager signal, join, destroyed
    pcR,                        \* reclaimer thread: check, wait, woken, destroy, done
    config,                     \* config of the getBuffer call in progress
    fbId,                       \* out parameter of the getBuffer call in progress
    nextFbId,                   \* kernel: next framebuffer id to hand out
    rmCount,                    \* kernel: drmModeRmFB calls per framebuffer id
    kernelFbs,                  \* kernel: the framebuffers that exist, each with the
                                \* layer and descriptor it was created for
    fbObjects,                  \* framebuffer ids wrapped in a Framebuffer object so far
    lastOp                      \* the outcome of the latest getBuffer call, or the later
                                \* call that moved or destroyed cache entries: name, flag
                                \* (getBuffer: cache hit, flip: hasSecureBuffer), return
                                \* value, returned fbId, entries moved to the reclaim
                                \* list, GEM handles imported and left open

VARIABLES
    mActiveModeState,           \* ModeState of the mode the hardware runs
    mDesiredModeState,          \* ModeState of the requested, not yet committed mode
    mIsResolutionSwitchInProgress,
    vblankOffDelay,             \* last value given to mDevice->setVBlankOffDelay
    mDesiredVsyncPeriod,        \* mVsyncCallback: period to be confirmed, 0 is none
    mVsyncPeriod,               \* mVsyncCallback: current period
    vsyncControl,               \* mDrmVSyncWorker: hardware vsync enabled
    active_mode,                \* DrmConnector::active_mode_ (mode id)
    nextBlobId,                 \* kernel: next property blob id to hand out
    blobRm,                     \* kernel: DestroyPropertyBlob calls per blob id
    propId,                     \* DrmProperty::id() of each property, 0 is unsupported
    propValue,                  \* last committed value of each property
    configChangeCallback,       \* mXrrSettings.configChangeCallback is registered
    drmReq,                     \* the DrmModeAtomicReq of the call in progress
    pcM,                        \* position of the call: idle, window, fb, commit,
                                \* post, return;
                                \* destroyed once the interface is
    call,                       \* the call in progress: name, arguments, locals, ret
    lastCommit                  \* the drmReq.commit of the call in progress: the
                                \* kernel's result, the result returned, ack
                                \* callbacks made

VARIABLES
    mVsyncTimeStamp,            \* mVsyncCallback: timestamp of the latest vsync, 0 is none
    mVsyncEnabled,              \* mVsyncCallback: the client has vsync enabled
    mModeSetFence,              \* mVsyncCallback: retire fence of the frame that
                                \* committed the mode, with its signal time
    now,                        \* hardware: time of the latest vsync
    nVsync,                     \* hardware: vsyncs delivered so far
    mPlugState,                 \* mExynosDisplay: the display is connected
    mLastVsyncTimestamp         \* mExynosDisplay: timestamp of the latest vsync
                                \* forwarded to the client, 0 is none

modeVars ==
    <<mActiveModeState, mDesiredModeState, mIsResolutionSwitchInProgress, vblankOffDelay,
      mDesiredVsyncPeriod, mVsyncPeriod, vsyncControl, active_mode, nextBlobId, blobRm,
      propId, propValue, configChangeCallback, drmReq, pcM, call, lastCommit>>

fbVars ==
    <<mCachedLayerBuffers, mCachedSecureLayerBuffers, mCleanBuffers, cleanupBuffers,
      mCacheShrinkPending, mCacheSecureShrinkPending, mCachedLayersInuse,
      mCachedSecureLayersInuse, mRmFBThreadRunning, pcP, pcR, config, fbId,
      nextFbId, rmCount, kernelFbs, fbObjects, lastOp>>

\* the state of the vsync callback no call of the producer thread writes
vsyncVars == <<mVsyncTimeStamp, mVsyncEnabled, now, nVsync, mPlugState, mLastVsyncTimestamp>>

vars == <<fbVars, modeVars, vsyncVars, mModeSetFence>>

cacheVars ==
    <<mCachedLayerBuffers, mCachedSecureLayerBuffers, mCleanBuffers>>

shrinkVars ==
    <<mCacheShrinkPending, mCacheSecureShrinkPending, mCachedLayersInuse,
      mCachedSecureLayersInuse>>

kernelVars == <<nextFbId, rmCount, kernelFbs, fbObjects>>

reclaimerVars == <<cleanupBuffers, mRmFBThreadRunning>>

FbIds == 1..(IF MaxFb > MaxFrameFb THEN MaxFb ELSE MaxFrameFb)

Op(op, flag, ret, moved) ==
    [op |-> op, flag |-> flag, ret |-> ret, fbId |-> 0, moved |-> moved, gemOpen |-> 0]

GetBufferOp(hit, ret, id, moved, gemOpen) ==
    [op |-> "getBuffer", flag |-> hit, ret |-> ret, fbId |-> id, moved |-> moved,
     gemOpen |-> gemOpen]

(* ----------------------------- helpers --------------------------------- *)

EmptyMap == [l \in {} |-> <<>>]

\* the FBList of a layer, empty when the map has no such key
Bucket(cached, layer) == IF layer \in DOMAIN cached THEN cached[layer] ELSE <<>>

\* map[layer] = list
MapPut(cached, layer, list) ==
    [l \in DOMAIN cached \cup {layer} |-> IF l = layer THEN list ELSE cached[l]]

\* map.erase(layer)
MapErase(cached, layer) == [l \in DOMAIN cached \ {layer} |-> cached[l]]

RECURSIVE SpliceFrom(_, _, _)
\* the lists of the given keys, concatenated in map iteration order from index i
SpliceFrom(cached, keys, i) ==
    IF i > Len(LayerOrder) THEN <<>>
    ELSE (IF LayerOrder[i] \in keys /\ LayerOrder[i] \in DOMAIN cached
          THEN cached[LayerOrder[i]] ELSE <<>>) \o SpliceFrom(cached, keys, i + 1)

SpliceAll(cached, keys) == SpliceFrom(cached, keys, 1)

\* the elements of a list that satisfy / do not satisfy membership in a set of descriptors
SelectDesc(list, descs) == SelectSeq(list, LAMBDA fb : fb.desc \in descs)

RejectDesc(list, descs) == SelectSeq(list, LAMBDA fb : fb.desc \notin descs)

(* ---------------------- FramebufferManager helpers ---------------------- *)

\* findCachedFbId: the fbId of the first entry of the layer's list with the
\* given descriptor, 0 when there is none
findCachedFbId(cached, layer, desc) ==
    LET list == Bucket(cached, layer)
        hits == {i \in 1..Len(list) : list[i].desc = desc}
    IN  IF hits = {} THEN 0
        ELSE list[CHOOSE i \in hits : \A j \in hits : i <= j].fbId

\* markInuseLayerLocked, the non-secure in-use set it leaves
markInuseLayer(inuse, layer, isSecureBuffer, shrinkPending) ==
    IF ~isSecureBuffer /\ shrinkPending THEN inuse \cup {layer} ELSE inuse

\* markInuseLayerLocked, the secure in-use set it leaves
markInuseSecureLayer(inuse, layer, isSecureBuffer, secureShrinkPending) ==
    IF isSecureBuffer /\ secureShrinkPending THEN inuse \cup {layer} ELSE inuse

\* cleanup() that splices the layer's list and leaves the emptied key in the map
cleanNoErase(layerBuffs, layer) ==
    IF layer \in DOMAIN layerBuffs
    THEN [cached |-> MapPut(layerBuffs, layer, <<>>), moved |-> layerBuffs[layer]]
    ELSE [cached |-> layerBuffs, moved |-> <<>>]

\* cleanup() that copies the layer's list to the reclaim list and leaves it cached
cleanCopy(layerBuffs, layer) ==
    IF layer \in DOMAIN layerBuffs
    THEN [cached |-> layerBuffs, moved |-> layerBuffs[layer]]
    ELSE [cached |-> layerBuffs, moved |-> <<>>]

\* the lambda of cleanup(): splice the layer's list to the reclaim list, erase the key
clean(layerBuffs, layer) ==
    IF layer \in DOMAIN layerBuffs
    THEN [cached |-> MapErase(layerBuffs, layer), moved |-> layerBuffs[layer]]
    ELSE [cached |-> layerBuffs, moved |-> <<>>]

\* an insertion that tests the size the list has with the new Framebuffer
emplaceFrontCountingNew(cachedBuffers, maxCachedBufferSize, fb) ==
    IF Len(cachedBuffers) + 1 > maxCachedBufferSize
    THEN [list |-> <<fb>>, moved |-> cachedBuffers]
    ELSE [list |-> <<fb>> \o cachedBuffers, moved |-> <<>>]

\* an insertion that splices only a list more than one over the cap
emplaceFrontOverCapPlusOne(cachedBuffers, maxCachedBufferSize, fb) ==
    IF Len(cachedBuffers) > maxCachedBufferSize + 1
    THEN [list |-> <<fb>>, moved |-> cachedBuffers]
    ELSE [list |-> <<fb>> \o cachedBuffers, moved |-> <<>>]

\* getBuffer, the locked insertion: a list already over the cap is spliced to
\* the reclaim list, then the new Framebuffer is put at the front
emplaceFront(cachedBuffers, maxCachedBufferSize, fb) ==
    IF Len(cachedBuffers) > maxCachedBufferSize
    THEN [list |-> <<fb>>, moved |-> cachedBuffers]
    ELSE [list |-> <<fb>> \o cachedBuffers, moved |-> <<>>]

\* the cap getBuffer applies to the list it inserts into
maxCachedBufferSize(isSecureBuffer) ==
    IF ~isSecureBuffer THEN MAX_CACHED_BUFFERS_PER_LAYER
    ELSE MAX_CACHED_SECURE_BUFFERS_PER_LAYER

\* a shrink pass that evicts every owner, marked in use or not
destroyUnusedLayersAll(cacheShrinkPending, cachedLayersInuse, cachedLayerBuffers) ==
    IF ~cacheShrinkPending
    THEN [cached |-> cachedLayerBuffers, moved |-> <<>>, shrunk |-> FALSE]
    ELSE [cached |-> EmptyMap,
          moved  |-> SpliceAll(cachedLayerBuffers, DOMAIN cachedLayerBuffers),
          shrunk |-> TRUE]

\* the lambda of destroyUnusedLayersLocked()
destroyUnusedLayers(cacheShrinkPending, cachedLayersInuse, cachedLayerBuffers) ==
    IF ~cacheShrinkPending
       \/ Cardinality(cachedLayersInuse) = Cardinality(DOMAIN cachedLayerBuffers)
    THEN [cached |-> cachedLayerBuffers, moved |-> <<>>, shrunk |-> FALSE]
    ELSE LET unused == DOMAIN cachedLayerBuffers \ cachedLayersInuse
         IN  [cached |-> [l \in DOMAIN cachedLayerBuffers \ unused |-> cachedLayerBuffers[l]],
              moved  |-> SpliceAll(cachedLayerBuffers, unused),
              shrunk |-> TRUE]

\* destroyAllSecureBuffersLocked() without the final clear() of the map
destroyAllSecureBuffersNoClear(cachedSecure) ==
    [cached |-> [l \in DOMAIN cachedSecure |-> <<>>],
     moved  |-> SpliceAll(cachedSecure, DOMAIN cachedSecure)]

\* destroyAllSecureBuffersLocked(): every secure list spliced to the reclaim
\* list in map order, then the map cleared
destroyAllSecureBuffersLocked(cachedSecure) ==
    [cached |-> EmptyMap, moved |-> SpliceAll(cachedSecure, DOMAIN cachedSecure)]

\* an uncache that moves the layer's whole list when one entry matches
destroyCachedBuffersWholeLayer(cachedLayerBuffers, layer, removedBufferDescs) ==
    IF layer \in DOMAIN cachedLayerBuffers
       /\ SelectDesc(cachedLayerBuffers[layer], removedBufferDescs) # <<>>
    THEN [cached |-> MapPut(cachedLayerBuffers, layer, <<>>),
          moved  |-> cachedLayerBuffers[layer]]
    ELSE [cached |-> cachedLayerBuffers, moved |-> <<>>]

\* the lambda of uncacheLayerBuffers(): splice the entries of the layer whose
\* bufferDesc is in removedBufferDescs, one by one, to the reclaim list
destroyCachedBuffersLocked(cachedLayerBuffers, layer, removedBufferDescs) ==
    IF layer \in DOMAIN cachedLayerBuffers
    THEN [cached |-> MapPut(cachedLayerBuffers, layer,
                            RejectDesc(cachedLayerBuffers[layer], removedBufferDescs)),
          moved  |-> SelectDesc(cachedLayerBuffers[layer], removedBufferDescs)]
    ELSE [cached |-> cachedLayerBuffers, moved |-> <<>>]

\* the import loop of getBuffer: handles[i] for i < the first failing import
\* are open, the loop stops at the first import that returns 0
importHandles(bufferNum, fdOk) ==
    LET fails == {i \in 1..bufferNum : ~fdOk[i]}
        first == IF fails = {} THEN bufferNum + 1
                 ELSE CHOOSE i \in fails : \A j \in fails : i <= j
    IN  [handles |-> [i \in 1..4 |-> IF i < first /\ i <= bufferNum THEN 1 ELSE 0],
         failed  |-> fails # {}]

\* number of non-zero handles among handles[1..n]
OpenCount(handles, n) == Cardinality({i \in 1..n : handles[i] # 0})

\* validateLayerInfo
validateLayerInfo(state, drmFormat, handles, modifier0) ==
    IF state = "WIN_STATE_RCD"
    THEN drmFormat = "C8" /\ handles[1] # 0 /\ handles[2] = 0 /\ ~modifier0
    ELSE TRUE

\* ~Framebuffer for every element of a list: one drmModeRmFB per element
DestroyAll(rm, list) ==
    [f \in DOMAIN rm |-> rm[f] + Cardinality({i \in 1..Len(list) : list[i].fbId = f})]

\* no kernel framebuffer under an id
NoFb ==
    [layer |-> "none",
     desc  |-> [kind |-> "none", bufferId |-> 0, drmFormat |-> "NONE", isSecure |-> FALSE,
                width |-> 0, height |-> 0]]

\* drmModeRmFB for every element of a list: the kernel's framebuffers are gone
RemoveAll(fbs, list) ==
    [f \in DOMAIN fbs |-> IF \E i \in 1..Len(list) : list[i].fbId = f THEN NoFb ELSE fbs[f]]

(* ------------------- modes, blobs and the transaction ------------------ *)

\* DrmMode: id, resolution (h_display x v_display) and te_period
DrmMode(id, resolution, te_period) ==
    [id |-> id, resolution |-> resolution, te_period |-> te_period]

\* a default-constructed DrmMode
NoMode == DrmMode(0, "none", 0)

\* mDrmConnector->modes(): two refresh rates of one resolution and a second
\* resolution
Modes == {DrmMode(1, "FHD", 16), DrmMode(2, "FHD", 8), DrmMode(3, "QHD", 8)}

\* the hwc2_config_t values the callers pass; 4 is not in the mode list
ConfigIds == {1, 2, 3, 4}

BlobIds == 1..MaxBlob

\* mDrmCrtc->id()
CrtcId == 1

\* the properties written: of the crtc active, mode and out-fence pointer, of
\* the connector the crtc id
Props == {"active", "mode_id", "crtc_id", "out_fence_ptr"}

\* the properties setupCommitFromDisplayConfig writes for the plane of a
\* window, in the order it adds them, up to the rotation
PlaneProps ==
    <<"plane_crtc_id", "fb_id", "crtc_x", "crtc_y", "crtc_w", "crtc_h", "src_x", "src_y",
      "src_w", "src_h", "rotation">>

AllProps == Props \cup {PlaneProps[i] : i \in 1..Len(PlaneProps)}

\* ModeState: mode, blob_id, old_blob_id and whether a mode set is pending
ModeState(mode, blob_id, old_blob_id, pending) ==
    [mode |-> mode, blob_id |-> blob_id, old_blob_id |-> old_blob_id, pending |-> pending]

\* a default-constructed ModeState, also the result of ModeState::reset
NoModeState == ModeState(NoMode, 0, 0, FALSE)

needsModeSet(state) == state.pending

clearPendingModeState(state) == [state EXCEPT !.pending = FALSE]

\* resolution differs (not just the refresh rate)
isFullModeSwitch(state, newMode) == state.mode.resolution # newMode.resolution

\* a DrmModeAtomicReq: the property set, the blobs marked old, the mode id the
\* ack callback is bound to (0: none registered) and the error recorded
NewReq == [alive |-> TRUE, mPset |-> <<>>, mOldBlobs |-> <<>>, mAckCallback |-> 0,
           mError |-> "NO_ERROR"]

\* no transaction exists
NoReq == [alive |-> FALSE, mPset |-> <<>>, mOldBlobs |-> <<>>, mAckCallback |-> 0,
          mError |-> "NO_ERROR"]

\* drmReq.addOldBlob(blob_id)
addOldBlob(req, blob_id) ==
    IF blob_id = 0 THEN req ELSE [req EXCEPT !.mOldBlobs = Append(@, blob_id)]

\* ModeState::setMode(newMode, modeBlob, drmReq): the blob held as old goes to
\* the transaction's old-blob list, the superseded blob is held as old
setMode(state, newMode, modeBlob, req) ==
    [state |-> ModeState(newMode, modeBlob, state.blob_id, TRUE),
     req   |-> addOldBlob(req, state.old_blob_id)]

\* ModeState::apply(toModeState, drmReq): the mode and its blob move to
\* toModeState and this state is reset
apply(state, toModeState, req) ==
    LET s == setMode(toModeState, state.mode, state.blob_id, req)
    IN  [to |-> s.state, from |-> NoModeState, req |-> addOldBlob(s.req, state.old_blob_id)]

\* DrmProperty::validateChange(value): the value differs from the last
\* committed one
validateChange(values, property, value) == values[property] # value

\* drmModeAtomicAddProperty(mPset, id, property.id(), value); libRet is the
\* library's result
drmModeAtomicAddProperty(req, id, property, value, libRet) ==
    IF libRet = "NO_ERROR"
    THEN [req EXCEPT !.mPset = Append(@, [object |-> id, property |-> property,
                                          value |-> value])]
    ELSE req

\* an atomicAddProperty that takes every property for required
atomicAddPropertyAllRequired(req, ids, values, id, property, value, optional, libRet) ==
    IF ids[property] = 0
    THEN [ret |-> "-EINVAL", req |-> req]
    ELSE IF validateChange(values, property, value)
         THEN [ret |-> libRet,
               req |-> drmModeAtomicAddProperty(req, id, property, value, libRet)]
         ELSE [ret |-> "NO_ERROR", req |-> req]

\* DrmModeAtomicReq::atomicAddProperty(id, property, value, optional)
atomicAddProperty(req, ids, values, id, property, value, optional, libRet) ==
    IF ~optional /\ ids[property] = 0
    THEN [ret |-> "-EINVAL", req |-> req]
    ELSE IF ids[property] # 0 /\ validateChange(values, property, value)
         THEN [ret |-> libRet,
               req |-> drmModeAtomicAddProperty(req, id, property, value, libRet)]
         ELSE [ret |-> "NO_ERROR", req |-> req]

\* a setDisplayMode that leaves the crtc active flag out
setDisplayModeNoActive(req, ids, values, callback, modeBlob, modeId, libRets) ==
    LET b == atomicAddProperty(req, ids, values, "crtc", "mode_id", modeBlob, FALSE,
                               libRets[2])
        c == atomicAddProperty(b.req, ids, values, "connector", "crtc_id", CrtcId, FALSE,
                               libRets[3])
    IN  IF b.ret # "NO_ERROR" THEN b
        ELSE IF c.ret # "NO_ERROR" THEN c
        ELSE [ret |-> "NO_ERROR",
              req |-> IF callback THEN [c.req EXCEPT !.mAckCallback = modeId] ELSE c.req]

\* setDisplayMode(drmReq, modeBlob, modeId): crtc active, crtc mode and the
\* connector's crtc id, then the ack callback; libRets are the library's
\* results of the three additions
setDisplayMode(req, ids, values, callback, modeBlob, modeId, libRets) ==
    LET a == atomicAddProperty(req, ids, values, "crtc", "active", 1, FALSE, libRets[1])
        b == atomicAddProperty(a.req, ids, values, "crtc", "mode_id", modeBlob, FALSE,
                               libRets[2])
        c == atomicAddProperty(b.req, ids, values, "connector", "crtc_id", CrtcId, FALSE,
                               libRets[3])
    IN  IF a.ret # "NO_ERROR" THEN a
        ELSE IF b.ret # "NO_ERROR" THEN b
        ELSE IF c.ret # "NO_ERROR" THEN c
        ELSE [ret |-> "NO_ERROR",
              req |-> IF callback THEN [c.req EXCEPT !.mAckCallback = modeId] ELSE c.req]

\* DrmModeAtomicReq::destroyOldBlobs: DestroyPropertyBlob for every blob
\* marked old
RECURSIVE destroyOldBlobs(_, _)
destroyOldBlobs(rm, blobs) ==
    IF blobs = <<>> THEN rm
    ELSE destroyOldBlobs([rm EXCEPT ![Head(blobs)] = @ + 1], Tail(blobs))

\* mDrmDevice->DestroyPropertyBlob(blob_id)
DestroyPropertyBlob(rm, blob_id) == [rm EXCEPT ![blob_id] = @ + 1]

(* ------------------------------ Init ----------------------------------- *)

\* the manager after construction and init(): empty cache, reclaimer started
InitCache ==
    /\ mCachedLayerBuffers = EmptyMap
    /\ mCachedSecureLayerBuffers = EmptyMap
    /\ mCleanBuffers = <<>>
    /\ cleanupBuffers = <<>>
    /\ mCacheShrinkPending = FALSE
    /\ mCacheSecureShrinkPending = FALSE
    /\ mCachedLayersInuse = {}
    /\ mCachedSecureLayersInuse = {}
    /\ mRmFBThreadRunning = TRUE
    /\ pcP = "idle"
    /\ pcR = "check"
    /\ config = NoConfig
    /\ fbId = 0
    /\ nextFbId = 1
    /\ rmCount = [f \in FbIds |-> 0]
    /\ kernelFbs = [f \in FbIds |-> NoFb]
    /\ fbObjects = {}
    /\ lastOp = Op("init", FALSE, "NO_ERROR", 0)

\* a call of the interface in progress: name, config argument, test argument,
\* the blob created for it, its commit flags and its return value
\* a call of the interface: name, arguments, locals and the value it
\* returns; window is the window of the frame deliverWinConfigData delivers
Call(op, cfg, test, modeBlob, flags, ret) ==
    [op |-> op, config |-> cfg, test |-> test, modeBlob |-> modeBlob, flags |-> flags,
     ret |-> ret, window |-> NoConfig]

NoCall == Call("none", 0, FALSE, 0, {}, "NO_ERROR")

\* the drmReq.commit of the call in progress: whether it was made, the
\* kernel's result, the result returned and the number of ack callbacks made
CommitRecord(made, kernelRet, ret, acks) ==
    [made |-> made, kernelRet |-> kernelRet, ret |-> ret, acks |-> acks]

NoCommit == CommitRecord(FALSE, "NO_ERROR", "NO_ERROR", 0)

\* the interface after construction on hardware whose properties have the
\* ids given: no mode set yet, no blob, no transaction
\* getSignalTime of a fence that is not open
SIGNAL_TIME_INVALID == -1

\* getSignalTime of a fence that has not signaled (INT64_MAX in the library)
SIGNAL_TIME_PENDING == -2

\* a mode-set fence: open or closed (-1), and the time it signaled at
Fence(open, signalTime) == [open |-> open, signalTime |-> signalTime]

NoFence == Fence(FALSE, SIGNAL_TIME_INVALID)

\* getSignalTime(fence)
getSignalTime(fence) == IF fence.open THEN fence.signalTime ELSE SIGNAL_TIME_INVALID

InitInterface(ids, callback) ==
    /\ mActiveModeState = NoModeState
    /\ mDesiredModeState = NoModeState
    /\ mIsResolutionSwitchInProgress = FALSE
    /\ vblankOffDelay = 1
    /\ mDesiredVsyncPeriod = 0
    /\ mVsyncPeriod = 0
    /\ vsyncControl = FALSE
    /\ active_mode = 0
    /\ nextBlobId = 1
    /\ blobRm = [b \in BlobIds |-> 0]
    /\ propId = ids
    /\ propValue = [p \in AllProps |-> 0]
    /\ configChangeCallback = callback
    /\ drmReq = NoReq
    /\ pcM = "idle"
    /\ call = NoCall
    /\ lastCommit = NoCommit
    /\ mVsyncTimeStamp = 0
    /\ mVsyncEnabled = FALSE
    /\ mModeSetFence = NoFence
    /\ now = 0
    /\ nVsync = 0
    /\ mPlugState = TRUE
    /\ mLastVsyncTimestamp = 0

\* every property supported
AllSupported == [p \in AllProps |-> 1]

\* the hardware variants: every property supported and a config-change
\* callback registered, the crtc mode property missing, the out-fence
\* pointer property missing and no callback registered
Hardware ==
    {[ids |-> AllSupported, callback |-> TRUE],
     [ids |-> [AllSupported EXCEPT !["mode_id"] = 0], callback |-> TRUE],
     [ids |-> [AllSupported EXCEPT !["out_fence_ptr"] = 0], callback |-> FALSE]}

Init == InitCache /\ InitInterface(AllSupported, TRUE)

\* the initial states of SpecMode: any of the hardware variants
InitMode == InitCache /\ \E hw \in Hardware : InitInterface(hw.ids, hw.callback)

(* --------------------------- producer thread --------------------------- *)

\* the descriptor getBuffer hands to findCachedFbId
lookupDesc(cfg) ==
    IF cfg.state = "WIN_STATE_COLOR"
    THEN SolidColorDesc(DstW, DstH)
    ELSE BufferDesc(cfg.buffer_id, halFormatToExynosFormat(cfg.format).drmFormat,
                    cfg.protection)

\* the descriptor getBuffer gives the Framebuffer it caches
cachedDesc(cfg) ==
    IF cfg.state = "WIN_STATE_COLOR"
    THEN SolidColorDesc(DstW, DstH)
    ELSE BufferDesc(cfg.buffer_id, halFormatToExynosFormat(cfg.format).drmFormat,
                    cfg.protection)

\* a signal made whether or not there is anything to clean up
SignalFlipDoneAlways(needCleanup) ==
    pcR' = IF pcR = "wait" THEN "woken" ELSE pcR

\* mFlipDone.signal(): wakes the reclaimer if it is waiting, lost otherwise
SignalFlipDone(needCleanup) ==
    pcR' = IF needCleanup /\ pcR = "wait" THEN "woken" ELSE pcR

\* what the kernel answers to the calls of one getBuffer: drmPrimeFDToHandle
\* per buffer (fdOk) and drmModeAddFB2WithModifiers (ret); every import
\* succeeds, or one of them fails
KernelOutcomes(bufferNum) ==
    {[fdOk |-> <<TRUE, TRUE>>, ret |-> r] : r \in {"NO_ERROR", "-ENOMEM"}}
    \cup {[fdOk |-> [i \in 1..2 |-> i # k], ret |-> "NO_ERROR"] : k \in 1..bufferNum}

\* getBuffer returns without caching anything
GetBufferReturn(hit, ret, id, gemOpen) ==
    /\ pcP' = "idle"
    /\ config' = NoConfig
    /\ fbId' = 0
    /\ lastOp' = GetBufferOp(hit, ret, id, 0, gemOpen)

\* a failure return that flushes both maps to the reclaim list
GetBufferFailFlush(ret, gemOpen) ==
    /\ GetBufferReturn(FALSE, ret, 0, gemOpen)
    /\ mCachedLayerBuffers' = EmptyMap
    /\ mCachedSecureLayerBuffers' = EmptyMap
    /\ mCleanBuffers' = mCleanBuffers
                        \o SpliceAll(mCachedLayerBuffers, DOMAIN mCachedLayerBuffers)
                        \o SpliceAll(mCachedSecureLayerBuffers,
                                     DOMAIN mCachedSecureLayerBuffers)
    /\ UNCHANGED <<nextFbId, kernelFbs>>

\* getBuffer returns an error: no framebuffer was created, no container is touched
GetBufferFail(ret, gemOpen) ==
    /\ GetBufferReturn(FALSE, ret, 0, gemOpen)
    /\ UNCHANGED <<nextFbId, kernelFbs, cacheVars>>

\* getBuffer after a cache miss, with the mutex released: the import of the GEM
\* handles, addFB2WithModifiers and the closing of the handles
GetBufferAddFB(cfg, kernel, maxFb) ==
    LET exynosFormat == halFormatToExynosFormat(cfg.format)
        isBuffer == cfg.state \in {"WIN_STATE_BUFFER", "WIN_STATE_RCD"}
        bufferNum == IF isBuffer THEN exynosFormat.bufferNum ELSE 0
        planeNum == IF isBuffer THEN exynosFormat.planeNum ELSE 0
        drmFormat == IF isBuffer THEN exynosFormat.drmFormat ELSE "BGRA8888"
        imported == importHandles(bufferNum, kernel.fdOk)
        opened == OpenCount(imported.handles, bufferNum)
        handles ==
            IF ~isBuffer THEN [i \in 1..4 |-> IF i = 1 THEN 1 ELSE 0]
            ELSE IF bufferNum = 1 /\ planeNum > bufferNum
            THEN [i \in 1..4 |-> IF i <= planeNum THEN imported.handles[1]
                                 ELSE imported.handles[i]]
            ELSE imported.handles
        modifier0 == cfg.protection \/ ~isBuffer
        ret == IF ~validateLayerInfo(cfg.state, drmFormat, handles, modifier0)
               THEN "-EINVAL" ELSE kernel.ret
        closed == OpenCount(handles, bufferNum)
    IN  IF imported.failed
        THEN \* return -ENOMEM from inside the import loop
             GetBufferFail("-ENOMEM", opened)
        ELSE IF ret # "NO_ERROR"
        THEN \* addFB2WithModifiers failed, the handles are closed
             GetBufferFail(ret, opened - closed)
        ELSE /\ nextFbId <= maxFb
             /\ nextFbId' = nextFbId + 1
             /\ kernelFbs' = [kernelFbs EXCEPT
                                 ![nextFbId] = [layer |-> cfg.layer, desc |-> lookupDesc(cfg)]]
             /\ UNCHANGED cacheVars
             /\ IF cfg.layer # NullLayer \/ cfg.buffer_id # 0
                THEN /\ pcP' = "insert"
                     /\ config' = cfg
                     /\ fbId' = nextFbId
                     /\ UNCHANGED lastOp
                ELSE \* "possible leakage": the framebuffer is not cached
                     GetBufferReturn(FALSE, "NO_ERROR", nextFbId, opened - closed)

\* getBuffer up to the check of addFB2WithModifiers' result: the format
\* checks, the lookup under the mutex and, on a miss, the creation of the
\* framebuffer
GetBufferCreate(cfg, maxFb) ==
    /\ pcP = "idle"
    /\ LET isSecureBuffer == cfg.protection
           exynosFormat == halFormatToExynosFormat(cfg.format)
           isBuffer == cfg.state \in {"WIN_STATE_BUFFER", "WIN_STATE_RCD"}
           invalid ==
               \/ /\ isBuffer
                  /\ \/ ~exynosFormat.known
                     \/ exynosFormat.drmFormat = "UNDEFINED"
                     \/ exynosFormat.bufferNum = 0
                     \/ exynosFormat.planeNum = 0
                     \/ exynosFormat.planeNum > MAX_PLANE_NUM
               \/ cfg.state \notin {"WIN_STATE_BUFFER", "WIN_STATE_RCD", "WIN_STATE_COLOR"}
           cached == IF ~isSecureBuffer THEN mCachedLayerBuffers
                     ELSE mCachedSecureLayerBuffers
           found == findCachedFbId(cached, cfg.layer, lookupDesc(cfg))
       IN  IF invalid
           THEN /\ GetBufferFail("-EINVAL", 0)
                /\ UNCHANGED <<mCachedLayersInuse, mCachedSecureLayersInuse>>
           ELSE /\ mCachedLayersInuse' =
                       markInuseLayer(mCachedLayersInuse, cfg.layer, isSecureBuffer,
                                      mCacheShrinkPending)
                /\ mCachedSecureLayersInuse' =
                       markInuseSecureLayer(mCachedSecureLayersInuse, cfg.layer,
                                            isSecureBuffer, mCacheSecureShrinkPending)
                /\ IF found # 0
                   THEN /\ GetBufferReturn(TRUE, "NO_ERROR", found, 0)
                        /\ UNCHANGED <<nextFbId, kernelFbs, cacheVars>>
                   ELSE \E kernel \in KernelOutcomes(IF isBuffer THEN exynosFormat.bufferNum
                                                       ELSE 0) :
                            GetBufferAddFB(cfg, kernel, maxFb)
    /\ UNCHANGED <<reclaimerVars, mCacheShrinkPending, mCacheSecureShrinkPending, pcR,
                   rmCount, fbObjects>>

\* getBuffer, the insertion under the mutex
GetBufferInsert ==
    /\ pcP = "insert"
    /\ LET isSecureBuffer == config.protection
           cached == IF ~isSecureBuffer THEN mCachedLayerBuffers
                     ELSE mCachedSecureLayerBuffers
           res == emplaceFront(Bucket(cached, config.layer),
                               maxCachedBufferSize(isSecureBuffer),
                               Framebuffer(fbId, cachedDesc(config)))
       IN  /\ mCachedLayersInuse' =
                  markInuseLayer(mCachedLayersInuse, config.layer, isSecureBuffer,
                                 mCacheShrinkPending)
           /\ mCachedSecureLayersInuse' =
                  markInuseSecureLayer(mCachedSecureLayersInuse, config.layer,
                                       isSecureBuffer, mCacheSecureShrinkPending)
           /\ mCleanBuffers' = mCleanBuffers \o res.moved
           /\ IF ~isSecureBuffer
              THEN /\ mCachedLayerBuffers' = MapPut(cached, config.layer, res.list)
                   /\ UNCHANGED mCachedSecureLayerBuffers
              ELSE /\ mCachedSecureLayerBuffers' = MapPut(cached, config.layer, res.list)
                   /\ UNCHANGED mCachedLayerBuffers
           /\ lastOp' = GetBufferOp(FALSE, "NO_ERROR", fbId, Len(res.moved), 0)
    /\ fbObjects' = fbObjects \cup {fbId}
    /\ pcP' = "idle"
    /\ config' = NoConfig
    /\ fbId' = 0
    /\ UNCHANGED <<reclaimerVars, mCacheShrinkPending, mCacheSecureShrinkPending, pcR,
                   nextFbId, rmCount, kernelFbs>>

\* checkShrink()
CheckShrink ==
    /\ pcP = "idle"
    /\ mCacheShrinkPending' = (Cardinality(DOMAIN mCachedLayerBuffers) > MAX_CACHED_LAYERS)
    /\ mCacheSecureShrinkPending' =
           (Cardinality(DOMAIN mCachedSecureLayerBuffers) > MAX_CACHED_SECURE_LAYERS)
    /\ UNCHANGED <<cacheVars, reclaimerVars, mCachedLayersInuse, mCachedSecureLayersInuse,
                   pcP, pcR, config, fbId, kernelVars, lastOp>>

\* flip(hasSecureBuffer)
Flip(hasSecureBuffer) ==
    /\ pcP = "idle"
    /\ LET unused == destroyUnusedLayers(mCacheShrinkPending, mCachedLayersInuse,
                                         mCachedLayerBuffers)
           unusedSecure == destroyUnusedLayers(mCacheSecureShrinkPending,
                                               mCachedSecureLayersInuse,
                                               mCachedSecureLayerBuffers)
           allSecure == IF ~hasSecureBuffer
                        THEN destroyAllSecureBuffersLocked(unusedSecure.cached)
                        ELSE [cached |-> unusedSecure.cached, moved |-> <<>>]
           moved == unused.moved \o unusedSecure.moved \o allSecure.moved
       IN  /\ mCachedLayerBuffers' = unused.cached
           /\ mCachedSecureLayerBuffers' = allSecure.cached
           /\ mCleanBuffers' = mCleanBuffers \o moved
           /\ mCachedLayersInuse' = {}
           /\ mCachedSecureLayersInuse' = {}
           /\ SignalFlipDone(Len(mCleanBuffers') > 0)
           /\ lastOp' = IF Len(moved) > 0
                        THEN Op("flip", hasSecureBuffer, "NO_ERROR", Len(moved))
                        ELSE lastOp
    /\ UNCHANGED <<reclaimerVars, mCacheShrinkPending, mCacheSecureShrinkPending, pcP,
                   config, fbId, kernelVars>>

\* releaseAll(): both maps and the reclaim list are cleared under the mutex,
\* which destroys every Framebuffer they hold
ReleaseAll ==
    /\ pcP = "idle"
    /\ LET destroyed == SpliceAll(mCachedLayerBuffers, DOMAIN mCachedLayerBuffers)
                        \o SpliceAll(mCachedSecureLayerBuffers,
                                     DOMAIN mCachedSecureLayerBuffers)
                        \o mCleanBuffers
       IN  /\ rmCount' = DestroyAll(rmCount, destroyed)
           /\ kernelFbs' = RemoveAll(kernelFbs, destroyed)
           /\ lastOp' = IF Len(destroyed) > 0
                        THEN Op("releaseAll", FALSE, "NO_ERROR", 0)
                        ELSE lastOp
    /\ mCachedLayerBuffers' = EmptyMap
    /\ mCachedSecureLayerBuffers' = EmptyMap
    /\ mCleanBuffers' = <<>>
    /\ UNCHANGED <<reclaimerVars, shrinkVars, pcP, pcR, config, fbId, nextFbId, fbObjects>>

(* ---------------------------- client thread ---------------------------- *)

\* cleanup(layer), called by destroyLayer; the flag of its record tells that
\* a getBuffer call for the layer was between its lookup and its insertion
Cleanup(layer) ==
    /\ LET c == clean(mCachedLayerBuffers, layer)
           cs == clean(mCachedSecureLayerBuffers, layer)
       IN  /\ mCachedLayerBuffers' = c.cached
           /\ mCachedSecureLayerBuffers' = cs.cached
           /\ mCleanBuffers' = mCleanBuffers \o c.moved \o cs.moved
           /\ lastOp' = IF Len(c.moved) + Len(cs.moved) > 0
                        THEN Op("cleanup", pcP = "insert" /\ config.layer = layer, "NO_ERROR",
                                Len(c.moved) + Len(cs.moved))
                        ELSE lastOp
    /\ UNCHANGED <<reclaimerVars, shrinkVars, pcP, pcR, config, fbId, kernelVars>>

\* uncacheLayerBuffers(layer, buffers)
UncacheLayerBuffers(layer, removedBufferDescs) ==
    /\ UNCHANGED <<reclaimerVars, shrinkVars, pcP, config, fbId, kernelVars>>
    /\ LET d == destroyCachedBuffersLocked(mCachedLayerBuffers, layer, removedBufferDescs)
           ds == destroyCachedBuffersLocked(mCachedSecureLayerBuffers, layer,
                                            removedBufferDescs)
           needCleanup == Len(d.moved) + Len(ds.moved) > 0
       IN  /\ mCleanBuffers' = mCleanBuffers \o d.moved \o ds.moved
           /\ SignalFlipDone(needCleanup)
           /\ lastOp' = IF needCleanup
                        THEN Op("uncacheLayerBuffers", FALSE, "NO_ERROR",
                                Len(d.moved) + Len(ds.moved))
                        ELSE lastOp
           /\ mCachedLayerBuffers' = d.cached
           /\ mCachedSecureLayerBuffers' = ds.cached

\* destroyAllSecureBuffers(), called by setPowerMode(OFF)
DestroyAllSecureBuffers ==
    /\ LET all == destroyAllSecureBuffersLocked(mCachedSecureLayerBuffers)
       IN  /\ mCachedSecureLayerBuffers' = all.cached
           /\ mCleanBuffers' = mCleanBuffers \o all.moved
           /\ SignalFlipDone(Len(mCleanBuffers') > 0)
           /\ lastOp' = IF Len(all.moved) > 0
                        THEN Op("destroyAllSecureBuffers", FALSE, "NO_ERROR", Len(all.moved))
                        ELSE lastOp
    /\ UNCHANGED <<mCachedLayerBuffers, reclaimerVars, shrinkVars, pcP, config, fbId,
                   kernelVars>>

(* --------------------------- reclaimer thread -------------------------- *)

\* a routine that waits on mFlipDone without testing the flag
RmFBCheckNoFlag ==
    /\ pcR = "check"
    /\ pcR' = "wait"
    /\ UNCHANGED <<cacheVars, reclaimerVars, shrinkVars, pcP, config, fbId, kernelVars,
                   lastOp>>

\* removeFBsThreadRoutine: take the mutex, test the flag, wait on mFlipDone
RmFBCheck ==
    /\ pcR = "check"
    /\ pcR' = IF ~mRmFBThreadRunning THEN "done" ELSE "wait"
    /\ UNCHANGED <<cacheVars, reclaimerVars, shrinkVars, pcP, config, fbId, kernelVars,
                   lastOp>>

\* removeFBsThreadRoutine: woken, the mutex re-acquired, splice the reclaim list
RmFBSplice ==
    /\ pcR = "woken"
    /\ cleanupBuffers' = cleanupBuffers \o mCleanBuffers
    /\ mCleanBuffers' = <<>>
    /\ pcR' = "destroy"
    /\ UNCHANGED <<mCachedLayerBuffers, mCachedSecureLayerBuffers, shrinkVars,
                   mRmFBThreadRunning, pcP, config, fbId, kernelVars, lastOp>>

\* removeFBsThreadRoutine: cleanupBuffers.clear() outside the mutex
RmFBDestroy ==
    /\ pcR = "destroy"
    /\ rmCount' = DestroyAll(rmCount, cleanupBuffers)
    /\ kernelFbs' = RemoveAll(kernelFbs, cleanupBuffers)
    /\ cleanupBuffers' = <<>>
    /\ pcR' = "check"
    /\ UNCHANGED <<cacheVars, shrinkVars, mRmFBThreadRunning, pcP, config, fbId, nextFbId,
                   fbObjects, lastOp>>

(* --------------------------- specification ----------------------------- *)

Next ==
    \/ UNCHANGED <<modeVars, vsyncVars, mModeSetFence>> /\ \E cfg \in Configs : GetBufferCreate(cfg, MaxFb)
    \/ UNCHANGED <<modeVars, vsyncVars, mModeSetFence>> /\ GetBufferInsert
    \/ UNCHANGED <<modeVars, vsyncVars, mModeSetFence>> /\ CheckShrink
    \/ UNCHANGED <<modeVars, vsyncVars, mModeSetFence>> /\ \E hasSecureBuffer \in BOOLEAN : Flip(hasSecureBuffer)
    \/ UNCHANGED <<modeVars, vsyncVars, mModeSetFence>> /\ ReleaseAll
    \/ UNCHANGED <<modeVars, vsyncVars, mModeSetFence>> /\ \E layer \in Layers : Cleanup(layer)
    \/ UNCHANGED <<modeVars, vsyncVars, mModeSetFence>> /\ \E layer \in Layers, ds \in UncacheSets : UncacheLayerBuffers(layer, ds)
    \/ UNCHANGED <<modeVars, vsyncVars, mModeSetFence>> /\ DestroyAllSecureBuffers
    \/ UNCHANGED <<modeVars, vsyncVars, mModeSetFence>> /\ RmFBCheck
    \/ UNCHANGED <<modeVars, vsyncVars, mModeSetFence>> /\ RmFBSplice
    \/ UNCHANGED <<modeVars, vsyncVars, mModeSetFence>> /\ RmFBDestroy

Spec == Init /\ [][Next]_vars

\* the calls of the producer and the client thread, with the reclaimer parked
\* in mFlipDone.wait: it is signalled and does not get the mutex back
NextCalls ==
    \/ UNCHANGED <<modeVars, vsyncVars, mModeSetFence>> /\ \E cfg \in Configs : GetBufferCreate(cfg, MaxFb)
    \/ UNCHANGED <<modeVars, vsyncVars, mModeSetFence>> /\ GetBufferInsert
    \/ UNCHANGED <<modeVars, vsyncVars, mModeSetFence>> /\ CheckShrink
    \/ UNCHANGED <<modeVars, vsyncVars, mModeSetFence>> /\ \E hasSecureBuffer \in BOOLEAN : Flip(hasSecureBuffer)
    \/ UNCHANGED <<modeVars, vsyncVars, mModeSetFence>> /\ ReleaseAll
    \/ UNCHANGED <<modeVars, vsyncVars, mModeSetFence>> /\ \E layer \in Layers : Cleanup(layer)
    \/ UNCHANGED <<modeVars, vsyncVars, mModeSetFence>> /\ \E layer \in Layers, ds \in UncacheSets : UncacheLayerBuffers(layer, ds)
    \/ UNCHANGED <<modeVars, vsyncVars, mModeSetFence>> /\ DestroyAllSecureBuffers
    \/ UNCHANGED <<modeVars, vsyncVars, mModeSetFence>> /\ RmFBCheck

SpecCalls == Init /\ [][NextCalls]_vars

\* the producer thread's frames alone: getBuffer calls, checkShrink and flip,
\* with no layer destroyed and the reclaimer not scheduled
NextFrames ==
    \/ UNCHANGED <<modeVars, vsyncVars, mModeSetFence>> /\ \E cfg \in FrameConfigs : GetBufferCreate(cfg, MaxFrameFb)
    \/ UNCHANGED <<modeVars, vsyncVars, mModeSetFence>> /\ GetBufferInsert
    \/ UNCHANGED <<modeVars, vsyncVars, mModeSetFence>> /\ CheckShrink
    \/ UNCHANGED <<modeVars, vsyncVars, mModeSetFence>> /\ \E hasSecureBuffer \in BOOLEAN : Flip(hasSecureBuffer)

SpecFrames == Init /\ [][NextFrames]_vars

(* --------------------- atomic commit and mode switch ------------------- *)

\* the result codes of the kernel for an atomic commit
KernelRets == {"NO_ERROR", "-EPERM", "-EINVAL", "-ENOMEM"}

\* the results of drmModeAtomicAddProperty for the three additions of
\* setDisplayMode: all succeed, or one runs out of memory
LibRets ==
    {<<"NO_ERROR", "NO_ERROR", "NO_ERROR">>, <<"-ENOMEM", "NO_ERROR", "NO_ERROR">>,
     <<"NO_ERROR", "-ENOMEM", "NO_ERROR">>, <<"NO_ERROR", "NO_ERROR", "-ENOMEM">>}

\* the results of CreatePropertyBlob
BlobRets == {"NO_ERROR", "-ENOMEM"}

\* the mode of the connector's list with the id given
ModeOf(cfg) == CHOOSE m \in Modes : m.id = cfg

\* the variables of the interface no call of the producer thread writes
hardwareVars == <<propId, configChangeCallback>>

\* a call is about to return without a transaction having been constructed
ReturnNoReq(c) ==
    /\ pcM' = "return"
    /\ call' = c
    /\ UNCHANGED <<drmReq, lastCommit>>

\* a call with the transaction given is about to commit it or to return
ReturnTo(position, c, req) ==
    /\ pcM' = position
    /\ call' = c
    /\ drmReq' = req
    /\ UNCHANGED lastCommit

\* a createModeBlob that reports success when no blob was created
createModeBlobNoError(blobRet, next) ==
    [ret |-> "NO_ERROR", modeBlob |-> IF blobRet = "NO_ERROR" THEN next ELSE 0]

\* createModeBlob(mode, modeBlob): blobRet is the result of CreatePropertyBlob,
\* next the id of the blob it creates
createModeBlob(blobRet, next) ==
    [ret |-> blobRet, modeBlob |-> IF blobRet = "NO_ERROR" THEN next ELSE 0]

\* a blob is created for every request
modeChangedAlways(desired, cfg) == TRUE

\* setActiveConfigWithConstraints: the config is not the desired mode, a blob
\* is to be created
modeChanged(desired, cfg) == desired.mode.id # cfg

\* a same-mode test that compares the config with the desired mode
sameModeAsDesired(desired, active, cfg) ==
    /\ ~needsModeSet(desired)
    /\ active.blob_id # 0
    /\ desired.mode.id = cfg

\* setActiveConfigWithConstraints: no mode change is pending and the config
\* is the active mode
sameMode(desired, active, cfg) ==
    /\ ~needsModeSet(desired)
    /\ active.blob_id # 0
    /\ active.mode.id = cfg

\* setActiveConfigWithConstraints(config, test) up to its return or, for a
\* test, up to drmReq.commit; blobRet is the result of CreatePropertyBlob
SetActiveConfigWithConstraints(cfg, test, blobRet, libRets) ==
    /\ pcM = "idle"
    /\ UNCHANGED <<fbVars, hardwareVars, vsyncVars, mModeSetFence, mActiveModeState, mVsyncPeriod, active_mode,
                   propValue>>
    /\ LET c(modeBlob, flags, ret) ==
               Call("setActiveConfigWithConstraints", cfg, test, modeBlob, flags, ret)
       IN
       IF ~\E m \in Modes : m.id = cfg
       THEN /\ ReturnNoReq(c(0, {}, "HWC2_ERROR_BAD_CONFIG"))
            /\ UNCHANGED <<mDesiredModeState, mIsResolutionSwitchInProgress, vblankOffDelay,
                           mDesiredVsyncPeriod, vsyncControl, nextBlobId, blobRm>>
       ELSE IF sameMode(mDesiredModeState, mActiveModeState, cfg)
       THEN /\ mDesiredVsyncPeriod' = mActiveModeState.mode.te_period
            /\ vsyncControl' = TRUE
            /\ ReturnNoReq(c(0, {}, "NO_ERROR"))
            /\ UNCHANGED <<mDesiredModeState, mIsResolutionSwitchInProgress, vblankOffDelay,
                           nextBlobId, blobRm>>
       ELSE
       LET mode == ModeOf(cfg)
           create == modeChanged(mDesiredModeState, cfg)
           blob == createModeBlob(blobRet, nextBlobId)
           modeBlob == IF create THEN blob.modeBlob ELSE 0
           isResSwitch == /\ mActiveModeState.blob_id # 0
                          /\ isFullModeSwitch(mActiveModeState, mode)
       IN
       /\ create => nextBlobId <= MaxBlob
       /\ nextBlobId' = IF modeBlob # 0 THEN nextBlobId + 1 ELSE nextBlobId
       /\ UNCHANGED <<mDesiredVsyncPeriod, vsyncControl>>
       /\ IF create /\ blob.ret # "NO_ERROR"
          THEN /\ ReturnTo("return", c(0, {}, "HWC2_ERROR_BAD_CONFIG"), NewReq)
               /\ UNCHANGED <<mDesiredModeState, mIsResolutionSwitchInProgress,
                              vblankOffDelay, blobRm>>
          ELSE IF ~test
          THEN /\ UNCHANGED blobRm
               /\ IF modeBlob # 0
                  THEN LET s == setMode(mDesiredModeState, mode, modeBlob, NewReq)
                           full == isFullModeSwitch(mDesiredModeState, mode)
                       IN  /\ mIsResolutionSwitchInProgress' =
                                  (full \/ mIsResolutionSwitchInProgress)
                           /\ vblankOffDelay' = IF full THEN 0 ELSE vblankOffDelay
                           /\ mDesiredModeState' = s.state
                           /\ ReturnTo("return", c(modeBlob, {}, "NO_ERROR"), s.req)
                  ELSE /\ ReturnTo("return", c(0, {}, "NO_ERROR"), NewReq)
                       /\ UNCHANGED <<mDesiredModeState, mIsResolutionSwitchInProgress,
                                      vblankOffDelay>>
          ELSE /\ UNCHANGED <<mDesiredModeState, mIsResolutionSwitchInProgress,
                              vblankOffDelay>>
               /\ IF ~isResSwitch
                  THEN LET d == setDisplayMode(NewReq, propId, propValue,
                                               configChangeCallback,
                                               IF modeBlob # 0 THEN modeBlob
                                               ELSE mDesiredModeState.blob_id,
                                               IF modeBlob # 0 THEN mode.id
                                               ELSE mDesiredModeState.mode.id,
                                               libRets)
                       IN  /\ UNCHANGED blobRm
                           /\ IF d.ret # "NO_ERROR"
                              THEN ReturnTo("return", c(modeBlob, {}, d.ret), d.req)
                              ELSE ReturnTo("commit",
                                            c(modeBlob, {"DRM_MODE_ATOMIC_TEST_ONLY"},
                                              "NO_ERROR"),
                                            d.req)
                  ELSE /\ blobRm' = IF modeBlob # 0
                                    THEN DestroyPropertyBlob(blobRm, modeBlob)
                                    ELSE blobRm
                       /\ ReturnTo("return", c(modeBlob, {}, "NO_ERROR"), NewReq)

\* the values of the properties after the kernel has applied a property set;
\* the out-fence pointer is consumed and keeps no value
Committed(values, pset) ==
    [p \in AllProps |->
        LET at == {i \in 1..Len(pset) : pset[i].property = p}
        IN  IF at = {} \/ p = "out_fence_ptr" THEN values[p]
            ELSE pset[CHOOSE i \in at : \A j \in at : j <= i].value]

\* a commit that makes the ack callback for test-only commits too
commitAckTestOnly(kernelRet, tui) ==
    /\ pcM = "commit"
    /\ LET testOnly == "DRM_MODE_ATOMIC_TEST_ONLY" \in call.flags
           ret == IF kernelRet = "-EPERM" /\ tui THEN "NO_ERROR" ELSE kernelRet
           ack == ret = "NO_ERROR" /\ drmReq.mAckCallback # 0
           switched == /\ mIsResolutionSwitchInProgress
                       /\ ~needsModeSet(mDesiredModeState)
       IN  /\ drmReq' = IF ret # "NO_ERROR" THEN [drmReq EXCEPT !.mError = ret] ELSE drmReq
           /\ lastCommit' = CommitRecord(TRUE, kernelRet, ret, IF ack THEN 1 ELSE 0)
           /\ mIsResolutionSwitchInProgress' =
                  IF switched THEN FALSE ELSE mIsResolutionSwitchInProgress
           /\ vblankOffDelay' = IF switched THEN 1 ELSE vblankOffDelay
           /\ propValue' = IF kernelRet = "NO_ERROR" /\ ~testOnly
                           THEN Committed(propValue, drmReq.mPset)
                           ELSE propValue
           /\ call' = [call EXCEPT !.ret = ret]
    /\ pcM' = "post"
    /\ UNCHANGED <<fbVars, hardwareVars, vsyncVars, mModeSetFence, mActiveModeState, mDesiredModeState,
                   mDesiredVsyncPeriod, mVsyncPeriod, vsyncControl, active_mode, nextBlobId,
                   blobRm>>

\* DrmModeAtomicReq::commit(flags): kernelRet is the result of
\* drmModeAtomicCommit, tui the answer of IsDrmInTUI
commit(kernelRet, tui) ==
    /\ pcM = "commit"
    /\ LET testOnly == "DRM_MODE_ATOMIC_TEST_ONLY" \in call.flags
           ret == IF kernelRet = "-EPERM" /\ tui THEN "NO_ERROR" ELSE kernelRet
           ack == ret = "NO_ERROR" /\ drmReq.mAckCallback # 0 /\ ~testOnly
           switched == /\ mIsResolutionSwitchInProgress
                       /\ ~needsModeSet(mDesiredModeState)
       IN  /\ drmReq' = IF ret # "NO_ERROR" THEN [drmReq EXCEPT !.mError = ret] ELSE drmReq
           /\ lastCommit' = CommitRecord(TRUE, kernelRet, ret, IF ack THEN 1 ELSE 0)
           /\ mIsResolutionSwitchInProgress' =
                  IF switched THEN FALSE ELSE mIsResolutionSwitchInProgress
           /\ vblankOffDelay' = IF switched THEN 1 ELSE vblankOffDelay
           /\ propValue' = IF kernelRet = "NO_ERROR" /\ ~testOnly
                           THEN Committed(propValue, drmReq.mPset)
                           ELSE propValue
           /\ call' = [call EXCEPT !.ret = ret]
    /\ pcM' = "post"
    /\ UNCHANGED <<fbVars, hardwareVars, vsyncVars, mModeSetFence, mActiveModeState, mDesiredModeState,
                   mDesiredVsyncPeriod, mVsyncPeriod, vsyncControl, active_mode, nextBlobId,
                   blobRm>>

\* setActiveConfigWithConstraints(config, test = true) after its commit
TestCommitted ==
    /\ pcM = "post"
    /\ call.op = "setActiveConfigWithConstraints"
    /\ IF call.ret # "NO_ERROR"
       THEN /\ drmReq' = addOldBlob(drmReq, call.modeBlob)
            /\ UNCHANGED blobRm
       ELSE /\ blobRm' = IF call.modeBlob # 0
                         THEN DestroyPropertyBlob(blobRm, call.modeBlob)
                         ELSE blobRm
            /\ UNCHANGED drmReq
    /\ pcM' = "return"
    /\ UNCHANGED <<fbVars, hardwareVars, vsyncVars, mModeSetFence, mActiveModeState, mDesiredModeState,
                   mIsResolutionSwitchInProgress, vblankOffDelay, mDesiredVsyncPeriod,
                   mVsyncPeriod, vsyncControl, active_mode, nextBlobId, propValue, call,
                   lastCommit>>

\* setActiveConfig(config) and the setActiveDrmMode it calls, up to the
\* return or to drmReq.commit; skipFrame is mExynosDisplay->mSkipFrame
SetActiveConfig(cfg, skipFrame, blobRet, libRets) ==
    /\ pcM = "idle"
    /\ UNCHANGED <<fbVars, hardwareVars, vsyncVars, mModeSetFence, mActiveModeState, mDesiredModeState,
                   mIsResolutionSwitchInProgress, vblankOffDelay, mDesiredVsyncPeriod,
                   mVsyncPeriod, vsyncControl, active_mode, blobRm, propValue>>
    /\ LET c(op, modeBlob, flags, ret) == Call(op, cfg, FALSE, modeBlob, flags, ret)
       IN
       IF ~\E m \in Modes : m.id = cfg
       THEN /\ ReturnNoReq(c("setActiveConfig", 0, {}, "HWC2_ERROR_BAD_CONFIG"))
            /\ UNCHANGED nextBlobId
       ELSE IF /\ ~skipFrame
               /\ mActiveModeState.blob_id # 0
               /\ mActiveModeState.mode.id = cfg
               /\ ~needsModeSet(mActiveModeState)
       THEN /\ ReturnNoReq(c("setActiveDrmMode", 0, {}, "NO_ERROR"))
            /\ UNCHANGED nextBlobId
       ELSE
       LET mode == ModeOf(cfg)
           blob == createModeBlob(blobRet, nextBlobId)
           modeBlob == blob.modeBlob
       IN
       /\ nextBlobId <= MaxBlob
       /\ nextBlobId' = IF modeBlob # 0 THEN nextBlobId + 1 ELSE nextBlobId
       /\ IF blob.ret # "NO_ERROR"
          THEN ReturnNoReq(c("setActiveDrmMode", 0, {}, "HWC2_ERROR_BAD_CONFIG"))
          ELSE LET d == setDisplayMode(NewReq, propId, propValue, configChangeCallback,
                                       modeBlob, mode.id, libRets)
               IN  IF d.ret # "NO_ERROR"
                   THEN ReturnTo("return", c("setActiveDrmMode", modeBlob, {}, d.ret),
                                 addOldBlob(d.req, modeBlob))
                   ELSE ReturnTo("commit",
                                 c("setActiveDrmMode", modeBlob,
                                   {"DRM_MODE_ATOMIC_ALLOW_MODESET"}, "NO_ERROR"),
                                 d.req)

\* a setActiveDrmMode that destroys the blob of a failed commit at once
ModeCommittedDestroyNow ==
    /\ pcM = "post"
    /\ call.op = "setActiveDrmMode"
    /\ IF call.ret # "NO_ERROR"
       THEN /\ drmReq' = addOldBlob(drmReq, call.modeBlob)
            /\ blobRm' = DestroyPropertyBlob(blobRm, call.modeBlob)
            /\ UNCHANGED <<mActiveModeState, mVsyncPeriod, active_mode>>
       ELSE LET mode == ModeOf(call.config)
                s == setMode(mActiveModeState, mode, call.modeBlob, drmReq)
            IN  /\ active_mode' = mode.id
                /\ mActiveModeState' = clearPendingModeState(s.state)
                /\ drmReq' = s.req
                /\ mVsyncPeriod' = mode.te_period
                /\ UNCHANGED blobRm
    /\ pcM' = "return"
    /\ UNCHANGED <<fbVars, hardwareVars, vsyncVars, mModeSetFence, mDesiredModeState, mIsResolutionSwitchInProgress,
                   vblankOffDelay, mDesiredVsyncPeriod, vsyncControl, nextBlobId,
                   propValue, call, lastCommit>>

\* setActiveDrmMode after its commit
ModeCommitted ==
    /\ pcM = "post"
    /\ call.op = "setActiveDrmMode"
    /\ IF call.ret # "NO_ERROR"
       THEN /\ drmReq' = addOldBlob(drmReq, call.modeBlob)
            /\ UNCHANGED <<mActiveModeState, mVsyncPeriod, active_mode>>
       ELSE LET mode == ModeOf(call.config)
                s == setMode(mActiveModeState, mode, call.modeBlob, drmReq)
            IN  /\ active_mode' = mode.id
                /\ mActiveModeState' = clearPendingModeState(s.state)
                /\ drmReq' = s.req
                /\ mVsyncPeriod' = mode.te_period
    /\ pcM' = "return"
    /\ UNCHANGED <<fbVars, hardwareVars, vsyncVars, mModeSetFence, mDesiredModeState, mIsResolutionSwitchInProgress,
                   vblankOffDelay, mDesiredVsyncPeriod, vsyncControl, nextBlobId, blobRm,
                   propValue, call, lastCommit>>

\* deliverWinConfigData() up to the return or to the loop over the windows:
\* checkShrink, the pending mode and the out-fence pointer; position is where
\* the call goes on
deliverWinConfigDataUpTo(position, window, libRets, fenceRet) ==
    /\ pcM = "idle"
    /\ CheckShrink
    /\ UNCHANGED <<hardwareVars, vsyncVars, mModeSetFence, mActiveModeState, mDesiredModeState,
                   mIsResolutionSwitchInProgress, vblankOffDelay, mDesiredVsyncPeriod,
                   mVsyncPeriod, vsyncControl, active_mode, nextBlobId, blobRm, propValue>>
    /\ LET c(flags, ret) == [Call("deliverWinConfigData", 0, FALSE, 0, flags, ret)
                                EXCEPT !.window = window]
           d == IF needsModeSet(mDesiredModeState)
                THEN setDisplayMode(NewReq, propId, propValue, configChangeCallback,
                                    mDesiredModeState.blob_id, mDesiredModeState.mode.id,
                                    libRets)
                ELSE [ret |-> "NO_ERROR", req |-> NewReq]
           f == atomicAddProperty(d.req, propId, propValue, "crtc", "out_fence_ptr", 1, TRUE,
                                  fenceRet)
       IN  IF d.ret # "NO_ERROR"
           THEN ReturnTo("return", c({}, d.ret), d.req)
           ELSE IF f.ret # "NO_ERROR"
           THEN ReturnTo("return", c({}, f.ret), f.req)
           ELSE ReturnTo(position, c({"DRM_MODE_ATOMIC_NONBLOCK"}, "NO_ERROR"), f.req)

\* deliverWinConfigData() of a frame without windows, up to the return or to
\* drmReq.commit
DeliverWinConfigData(libRets, fenceRet) ==
    /\ pcM = "idle"
    /\ deliverWinConfigDataUpTo("commit", NoConfig, libRets, fenceRet)

\* a deliverWinConfigData that promotes the desired mode whatever its commit
\* returned
FrameCommittedAnyRet ==
    /\ pcM = "post"
    /\ call.op = "deliverWinConfigData"
    /\ IF needsModeSet(mDesiredModeState)
       THEN LET a == apply(mDesiredModeState, mActiveModeState, drmReq)
            IN  /\ mActiveModeState' = a.to
                /\ mDesiredModeState' = a.from
                /\ drmReq' = a.req
                /\ mDesiredVsyncPeriod' = a.to.mode.te_period
                /\ mModeSetFence' = Fence(TRUE, SIGNAL_TIME_PENDING)
                /\ vsyncControl' = TRUE
       ELSE UNCHANGED <<mActiveModeState, mDesiredModeState, drmReq, mDesiredVsyncPeriod,
                        mModeSetFence, vsyncControl>>
    /\ pcM' = "return"
    /\ UNCHANGED <<fbVars, hardwareVars, vsyncVars, mIsResolutionSwitchInProgress,
                   vblankOffDelay,
                   mVsyncPeriod, active_mode, nextBlobId, blobRm, propValue, call,
                   lastCommit>>

\* deliverWinConfigData after its commit
FrameCommitted ==
    /\ pcM = "post"
    /\ call.op = "deliverWinConfigData"
    /\ IF call.ret = "NO_ERROR" /\ needsModeSet(mDesiredModeState)
       THEN LET a == apply(mDesiredModeState, mActiveModeState, drmReq)
            IN  /\ mActiveModeState' = a.to
                /\ mDesiredModeState' = a.from
                /\ drmReq' = a.req
                /\ mDesiredVsyncPeriod' = a.to.mode.te_period
                /\ mModeSetFence' = Fence(TRUE, SIGNAL_TIME_PENDING)
                /\ vsyncControl' = TRUE
       ELSE UNCHANGED <<mActiveModeState, mDesiredModeState, drmReq, mDesiredVsyncPeriod,
                        mModeSetFence, vsyncControl>>
    /\ pcM' = "return"
    /\ UNCHANGED <<fbVars, hardwareVars, vsyncVars, mIsResolutionSwitchInProgress,
                   vblankOffDelay,
                   mVsyncPeriod, active_mode, nextBlobId, blobRm, propValue, call,
                   lastCommit>>

\* a return whose callback runs flip when the frame ran out of memory
DestructorFlipOnly ==
    /\ pcM = "return"
    /\ IF call.op # "deliverWinConfigData" THEN UNCHANGED fbVars
       ELSE IF call.ret = "NO_ERROR" /\ drmReq.mError = "NO_ERROR"
       THEN Flip(call.window.protection)
       ELSE IF call.ret = "-ENOMEM" THEN Flip(call.window.protection)
       ELSE UNCHANGED fbVars
    /\ blobRm' = destroyOldBlobs(blobRm, drmReq.mOldBlobs)
    /\ drmReq' = NoReq
    /\ call' = NoCall
    /\ lastCommit' = NoCommit
    /\ pcM' = "idle"
    /\ UNCHANGED <<hardwareVars, vsyncVars, mModeSetFence, mActiveModeState,
                   mDesiredModeState, mIsResolutionSwitchInProgress, vblankOffDelay,
                   mDesiredVsyncPeriod, mVsyncPeriod, vsyncControl, active_mode, nextBlobId,
                   propValue>>

\* the return of a call: for deliverWinConfigData the return callback (flip
\* or releaseAll), then ~DrmModeAtomicReq, which destroys the blobs marked old
Destructor ==
    /\ pcM = "return"
    /\ IF call.op # "deliverWinConfigData" THEN UNCHANGED fbVars
       ELSE IF call.ret = "NO_ERROR" /\ drmReq.mError = "NO_ERROR"
       THEN Flip(call.window.protection)
       ELSE IF call.ret = "-ENOMEM" THEN ReleaseAll
       ELSE UNCHANGED fbVars
    /\ blobRm' = destroyOldBlobs(blobRm, drmReq.mOldBlobs)
    /\ drmReq' = NoReq
    /\ call' = NoCall
    /\ lastCommit' = NoCommit
    /\ pcM' = "idle"
    /\ UNCHANGED <<hardwareVars, vsyncVars, mModeSetFence, mActiveModeState, mDesiredModeState,
                   mIsResolutionSwitchInProgress, vblankOffDelay, mDesiredVsyncPeriod,
                   mVsyncPeriod, vsyncControl, active_mode, nextBlobId, propValue>>

\* DestroyPropertyBlob for the blob of the id given unless the id is 0
DestroyIfSet(rm, blob_id) == IF blob_id # 0 THEN DestroyPropertyBlob(rm, blob_id) ELSE rm

\* ~ExynosDisplayDrmInterface(): the blobs the two mode states hold are
\* destroyed; no call follows
DestroyInterface ==
    /\ pcM = "idle"
    /\ pcM' = "destroyed"
    /\ blobRm' = DestroyIfSet(DestroyIfSet(DestroyIfSet(DestroyIfSet(blobRm,
                      mActiveModeState.blob_id), mActiveModeState.old_blob_id),
                      mDesiredModeState.blob_id), mDesiredModeState.old_blob_id)
    /\ UNCHANGED <<fbVars, hardwareVars, vsyncVars, mModeSetFence, mActiveModeState,
                   mDesiredModeState, mIsResolutionSwitchInProgress, vblankOffDelay,
                   mDesiredVsyncPeriod, mVsyncPeriod, vsyncControl, active_mode, nextBlobId,
                   propValue, drmReq, call, lastCommit>>

NextMode ==
    \/ \E cfg \in ConfigIds, test \in BOOLEAN, blobRet \in BlobRets, libRets \in LibRets :
           SetActiveConfigWithConstraints(cfg, test, blobRet, libRets)
    \/ TestCommitted
    \/ \E cfg \in ConfigIds, skipFrame \in BOOLEAN, blobRet \in BlobRets, libRets \in LibRets :
           SetActiveConfig(cfg, skipFrame, blobRet, libRets)
    \/ ModeCommitted
    \/ \E libRets \in LibRets, fenceRet \in {"NO_ERROR", "-ENOMEM"} :
           DeliverWinConfigData(libRets, fenceRet)
    \/ FrameCommitted
    \/ \E kernelRet \in KernelRets, tui \in BOOLEAN : commit(kernelRet, tui)
    \/ Destructor
    \/ DestroyInterface

\* the producer thread's calls of the interface on every hardware variant
SpecMode == InitMode /\ [][NextMode]_vars

(* ------------------------------ vsync callback ------------------------- *)

\* Times are in units of 2^20 ns: a te_period of 16 is a 60 Hz mode, of 8 a
\* 120 Hz mode, and the 2^32 values of an int32_t of nanoseconds are 2^12 units.
Int32Span == 4096

\* static_cast<int32_t>(x) of a count of nanoseconds, in units
static_cast_int32(x) == ((x + Int32Span \div 2) % Int32Span) - Int32Span \div 2

abs(x) == IF x < 0 THEN 0 - x ELSE x

\* mTransientDuration: getConfigChangeDuration() without a rr_switch_duration
\* property
TransientDuration == 2

\* x < error for error = mDesiredVsyncPeriod / 5 nanoseconds and x a whole
\* number of units
BelowError(x, desired) == 5 * x < desired

\* the period is within 20% of the desired period
within20Percent(desired, period) == BelowError(abs(desired - period), desired)

\* abs(static_cast<int32_t>(mDesiredVsyncPeriod - mVsyncPeriod)) < error
periodMatches(desired, period) ==
    BelowError(abs(static_cast_int32(desired - period)), desired)

\* signalTime is valid and
\* timestamp > signalTime + mVsyncPeriod * mTransientDuration - error
modeSwitchTimeReached(timestamp, fence, period, desired) ==
    LET signalTime == getSignalTime(fence)
    IN  /\ signalTime # SIGNAL_TIME_INVALID
        /\ signalTime # SIGNAL_TIME_PENDING
        /\ BelowError(signalTime + period * TransientDuration - timestamp, desired)

\* ExynosVsyncCallback::Callback(display, timestamp): the fields it writes and
\* the value it returns
VsyncCallback(timestamp) ==
    LET period == IF mVsyncTimeStamp > 0 THEN timestamp - mVsyncTimeStamp ELSE mVsyncPeriod
        reached == modeSwitchTimeReached(timestamp, mModeSetFence, period,
                                         mDesiredVsyncPeriod)
    IN  [mVsyncPeriod |-> period,
         mVsyncTimeStamp |-> timestamp,
         mModeSetFence |-> IF /\ mDesiredVsyncPeriod # 0
                              /\ ~periodMatches(mDesiredVsyncPeriod, period)
                              /\ reached
                           THEN NoFence ELSE mModeSetFence,
         ret |-> \/ mDesiredVsyncPeriod = 0
                 \/ periodMatches(mDesiredVsyncPeriod, period)
                 \/ reached]

\* the time between two vsyncs the hardware delivers
Deltas == {8, 16}

\* the producer's variables the vsync thread leaves alone
producerVars ==
    <<fbVars, mActiveModeState, mDesiredModeState, mIsResolutionSwitchInProgress,
      vblankOffDelay, nextBlobId, blobRm, propId, propValue, configChangeCallback,
      drmReq, pcM, call, lastCommit>>

\* a callback that looks at the plug state only before it goes to the client
forwardsVsyncWhenPlugged(plugged, enabled, mismatching) ==
    plugged /\ ~mismatching

\* Callback goes on to mExynosDisplay->onVsync and the device's callbacks: it
\* returns before them when the display is unplugged, when the client has
\* vsync disabled and when it skips a mismatching vsync
forwardsVsync(plugged, enabled, mismatching) ==
    plugged /\ enabled /\ ~mismatching

\* ExynosDisplayDrmInterface::Callback(display, timestamp), for the vsync that
\* comes delta after the time now: the reconciliation under the display
\* mutex, then the vsync goes to the client (mLastVsyncTimestamp is written,
\* onVsync and the device's callbacks are called) unless the display is
\* unplugged, the client has vsync disabled, or the vsync is skipped as one
\* of a refresh rate the client does not expect (mismatching: config setting
\* is disabled and the vsync comes too early for the pending config)
CallbackVsync(delta, mismatching) ==
    /\ pcM = "idle"
    /\ vsyncControl
    /\ nVsync < MaxVsync
    /\ LET timestamp == now + delta
           c == VsyncCallback(timestamp)
           off == c.ret /\ ~mVsyncEnabled
       IN  /\ mismatching => mLastVsyncTimestamp # 0
           /\ mLastVsyncTimestamp' =
                  IF forwardsVsync(mPlugState, mVsyncEnabled, mismatching)
                  THEN timestamp ELSE mLastVsyncTimestamp
           /\ now' = timestamp
           /\ nVsync' = nVsync + 1
           /\ mVsyncPeriod' = c.mVsyncPeriod
           /\ mModeSetFence' = c.mModeSetFence
           /\ mVsyncTimeStamp' = IF off THEN 0 ELSE c.mVsyncTimeStamp
           /\ vsyncControl' = IF off THEN FALSE ELSE vsyncControl
           /\ mDesiredVsyncPeriod' = IF c.ret THEN 0 ELSE mDesiredVsyncPeriod
           /\ active_mode' = IF c.ret /\ mDesiredVsyncPeriod # 0
                             THEN mActiveModeState.mode.id ELSE active_mode
    /\ UNCHANGED <<producerVars, mVsyncEnabled, mPlugState>>

\* the callback while config setting is enabled
Callback(delta) ==
    /\ pcM = "idle"
    /\ CallbackVsync(delta, FALSE)

\* the hardware vsync is off and the display idles for 2^32 ns
Idle ==
    /\ pcM = "idle"
    /\ ~vsyncControl
    /\ nVsync < MaxVsync
    /\ now' = now + Int32Span
    /\ nVsync' = nVsync + 1
    /\ UNCHANGED <<producerVars, mVsyncEnabled, mPlugState, mLastVsyncTimestamp,
                   mVsyncTimeStamp, mVsyncPeriod,
                   mModeSetFence, vsyncControl, mDesiredVsyncPeriod, active_mode>>

\* the retire fence of the frame that committed the mode signals
FenceSignaled ==
    /\ pcM = "idle"
    /\ mModeSetFence.open
    /\ mModeSetFence.signalTime = SIGNAL_TIME_PENDING
    /\ mModeSetFence' = Fence(TRUE, now)
    /\ UNCHANGED <<producerVars, vsyncVars, mVsyncPeriod, vsyncControl, mDesiredVsyncPeriod,
                   active_mode>>

\* setVsyncEnabled(enabled)
SetVsyncEnabled(enabled) ==
    /\ pcM = "idle"
    /\ mVsyncEnabled # enabled
    /\ vsyncControl' = IF enabled THEN TRUE
                       ELSE IF mDesiredVsyncPeriod = 0 THEN FALSE
                       ELSE vsyncControl
    /\ mVsyncEnabled' = enabled
    /\ UNCHANGED <<producerVars, mVsyncTimeStamp, now, nVsync, mPlugState,
                   mLastVsyncTimestamp, mModeSetFence, mVsyncPeriod,
                   mDesiredVsyncPeriod, active_mode>>

\* the results of the library when every addition succeeds
LibOk == <<"NO_ERROR", "NO_ERROR", "NO_ERROR">>

\* the configs requested under SpecVsync: the two 120 Hz modes
VsyncConfigs == {2, 3}

\* the config of the first, immediate mode set: the 60 Hz mode
FirstConfig == 1

NextVsync ==
    \/ \E cfg \in VsyncConfigs :
           SetActiveConfigWithConstraints(cfg, FALSE, "NO_ERROR", LibOk)
    \/ SetActiveConfig(FirstConfig, FALSE, "NO_ERROR", LibOk)
    \/ ModeCommitted
    \/ DeliverWinConfigData(LibOk, "NO_ERROR")
    \/ FrameCommitted
    \/ commit("NO_ERROR", FALSE)
    \/ Destructor
    \/ \E delta \in Deltas : Callback(delta)
    \/ Idle
    \/ FenceSignaled
    \/ \E enabled \in BOOLEAN : SetVsyncEnabled(enabled)

\* mode switches whose commits succeed, with the vsync thread
SpecVsync == Init /\ [][NextVsync]_vars

(* ------------------------- frame with a window ------------------------- *)

\* the windows of the frames of SpecWindow: a buffer and a protected buffer
\* of the layer and a solid color
WindowConfigs ==
    {Config("L1", "WIN_STATE_BUFFER", "RGBA", 1, FALSE),
     Config("L1", "WIN_STATE_BUFFER", "RGBA", 0, TRUE),
     Config("L1", "WIN_STATE_COLOR", "RGBA", 0, FALSE)}

\* config.dst.x and config.dst.y, config.src.x and config.src.y of a window
DstX == 1

DstY == 1

SrcX == 1

SrcY == 1

\* (int)(x) << 16
shl16(x) == x * 65536

\* the values setupCommitFromDisplayConfig gives the properties of
\* PlaneProps for a window shown from the framebuffer given, untransformed
PlaneValues(id) ==
    <<CrtcId, id, DstX, DstY, DstW, DstH, shl16(SrcX), shl16(SrcY), shl16(DstW),
      shl16(DstH), 1>>

\* setupCommitFromDisplayConfig from the i-th property of PlaneProps on: the
\* first addition that fails is returned, but a failed addition of src_y is
\* logged and overwritten by the result of the next addition; the rotation
\* is optional; fbRet is the library's result for the fb_id addition
RECURSIVE addPlaneProperties(_, _, _, _, _, _)
addPlaneProperties(req, ids, values, id, i, fbRet) ==
    IF i > Len(PlaneProps) THEN [ret |-> "NO_ERROR", req |-> req]
    ELSE LET property == PlaneProps[i]
             a == atomicAddProperty(req, ids, values, "plane", property,
                                    PlaneValues(id)[i], property = "rotation",
                                    IF property = "fb_id" THEN fbRet ELSE "NO_ERROR")
         IN  IF a.ret # "NO_ERROR" /\ property # "src_y" THEN a
             ELSE addPlaneProperties(a.req, ids, values, id, i + 1, fbRet)

\* the variables of the interface the loop over the windows leaves alone
windowFrameVars ==
    <<hardwareVars, vsyncVars, mModeSetFence, mActiveModeState, mDesiredModeState,
      mIsResolutionSwitchInProgress, vblankOffDelay, mDesiredVsyncPeriod, mVsyncPeriod,
      vsyncControl, active_mode, nextBlobId, blobRm, propValue, lastCommit>>

\* deliverWinConfigData() of a frame with the window given, up to the return
\* or to the loop over mDpuData.configs
DeliverWindow(window, libRets, fenceRet) ==
    /\ pcM = "idle"
    /\ deliverWinConfigDataUpTo("window", window, libRets, fenceRet)

\* setupCommitFromDisplayConfig: mFBManager.getBuffer(config, fbId) up to its
\* return or to the insertion
WindowGetBuffer ==
    /\ pcM = "window"
    /\ GetBufferCreate(call.window, MaxFrameFb)
    /\ pcM' = "fb"
    /\ UNCHANGED <<windowFrameVars, drmReq, call>>

\* getBuffer of the frame's window, the insertion
WindowInsert ==
    /\ pcM = "fb"
    /\ GetBufferInsert
    /\ UNCHANGED <<windowFrameVars, drmReq, call, pcM>>

\* setupCommitFromDisplayConfig after getBuffer: the error of getBuffer is
\* returned, else the plane's properties are added; deliverWinConfigData
\* returns its error or goes on to drmReq.commit
SetupCommitFromDisplayConfig(fbRet) ==
    /\ pcM = "fb"
    /\ pcP = "idle"
    /\ LET s == IF lastOp.ret # "NO_ERROR" THEN [ret |-> lastOp.ret, req |-> drmReq]
                ELSE addPlaneProperties(drmReq, propId, propValue, lastOp.fbId, 1, fbRet)
       IN  /\ drmReq' = s.req
           /\ call' = [call EXCEPT !.ret = s.ret]
           /\ pcM' = IF s.ret # "NO_ERROR" THEN "return" ELSE "commit"
    /\ UNCHANGED <<fbVars, windowFrameVars>>

\* the hardware variants of SpecWindow: every property supported, and the
\* plane without the src_x, the src_y or the rotation property
PlaneHardware ==
    {AllSupported, [AllSupported EXCEPT !["src_x"] = 0],
     [AllSupported EXCEPT !["src_y"] = 0], [AllSupported EXCEPT !["rotation"] = 0]}

InitWindow == InitCache /\ \E ids \in PlaneHardware : InitInterface(ids, TRUE)

\* the frames of the producer thread, each with one window, with no mode
\* requested and the reclaimer not scheduled
NextWindow ==
    \/ \E window \in WindowConfigs, fenceRet \in {"NO_ERROR", "-ENOMEM"} :
           DeliverWindow(window, LibOk, fenceRet)
    \/ WindowGetBuffer
    \/ WindowInsert
    \/ \E fbRet \in {"NO_ERROR", "-ENOMEM"} : SetupCommitFromDisplayConfig(fbRet)
    \/ \E kernelRet \in KernelRets, tui \in BOOLEAN : commit(kernelRet, tui)
    \/ FrameCommitted
    \/ Destructor

SpecWindow == InitWindow /\ [][NextWindow]_vars

(* ------------------------- ~FramebufferManager ------------------------- *)

\* the variables of the interface, which the framebuffer manager's threads
\* leave alone
interfaceVars == <<modeVars, vsyncVars, mModeSetFence>>

\* ~FramebufferManager(): mRmFBThreadRunning = false under the mutex
StopRmFBThread ==
    /\ pcP = "idle"
    /\ mRmFBThreadRunning
    /\ mRmFBThreadRunning' = FALSE
    /\ pcP' = "signal"
    /\ UNCHANGED <<cacheVars, cleanupBuffers, shrinkVars, pcR, config, fbId, kernelVars,
                   lastOp>>

\* ~FramebufferManager(): mFlipDone.signal()
SignalRmFBThread ==
    /\ pcP = "signal"
    /\ SignalFlipDone(TRUE)
    /\ pcP' = "join"
    /\ UNCHANGED <<cacheVars, reclaimerVars, shrinkVars, config, fbId, kernelVars, lastOp>>

\* ~FramebufferManager(): mRmFBThread.join() returns once the routine has
\* left its loop
JoinRmFBThread ==
    /\ pcP = "join"
    /\ pcR = "done"
    /\ pcP' = "destroyed"
    /\ UNCHANGED <<cacheVars, reclaimerVars, shrinkVars, pcR, config, fbId, kernelVars,
                   lastOp>>

\* the manager is not being destroyed: the client thread may call it
Alive == pcP \in {"idle", "insert"}

\* the steps of removeFBsThreadRoutine
Reclaimer == UNCHANGED interfaceVars /\ (RmFBCheck \/ RmFBSplice \/ RmFBDestroy)

\* the steps of ~FramebufferManager() after the flag is cleared
Shutdown == UNCHANGED interfaceVars /\ (SignalRmFBThread \/ JoinRmFBThread)

\* the configs getBuffer is called with in SpecShutdown: a buffer of the
\* layer and a buffer without a layer
ShutdownConfigs ==
    {Config("L1", "WIN_STATE_BUFFER", "RGBA", 1, FALSE),
     Config(NullLayer, "WIN_STATE_BUFFER", "RGBA", 1, FALSE)}

\* the calls of the producer and the client thread and the reclaimer, as in
\* Spec for the configs of ShutdownConfigs, which are not protected, and the
\* destruction of the manager at any point between two calls
NextShutdown ==
    \/ UNCHANGED interfaceVars /\ \E cfg \in ShutdownConfigs : GetBufferCreate(cfg, MaxFb)
    \/ UNCHANGED interfaceVars /\ GetBufferInsert
    \/ UNCHANGED interfaceVars /\ CheckShrink
    \/ UNCHANGED interfaceVars /\ \E hasSecureBuffer \in BOOLEAN : Flip(hasSecureBuffer)
    \/ UNCHANGED interfaceVars /\ ReleaseAll
    \/ UNCHANGED interfaceVars /\ Alive /\ \E layer \in Layers : Cleanup(layer)
    \/ UNCHANGED interfaceVars /\ Alive
          /\ \E layer \in Layers, ds \in UncacheSets : UncacheLayerBuffers(layer, ds)
    \/ UNCHANGED interfaceVars /\ RmFBCheck
    \/ UNCHANGED interfaceVars /\ RmFBSplice
    \/ UNCHANGED interfaceVars /\ RmFBDestroy
    \/ UNCHANGED interfaceVars /\ StopRmFBThread
    \/ UNCHANGED interfaceVars /\ SignalRmFBThread
    \/ UNCHANGED interfaceVars /\ JoinRmFBThread

\* both threads are scheduled: the reclaimer takes its next step and the
\* destructor goes on to its signal and its join
SpecShutdown == Init /\ [][NextShutdown]_vars /\ WF_vars(Reclaimer) /\ WF_vars(Shutdown)

(* ---------------------- reclaim without further calls ------------------ *)

\* the configs getBuffer is called with in SpecReclaim: those of
\* ShutdownConfigs and a protected buffer of the layer
ReclaimConfigs ==
    ShutdownConfigs \cup {Config("L1", "WIN_STATE_BUFFER", "RGBA", 0, TRUE)}

\* the calls of the producer and the client thread and the reclaimer, as in
\* Spec for the configs of ReclaimConfigs
NextReclaim ==
    \/ UNCHANGED interfaceVars /\ \E cfg \in ReclaimConfigs : GetBufferCreate(cfg, MaxFb)
    \/ UNCHANGED interfaceVars /\ GetBufferInsert
    \/ UNCHANGED interfaceVars /\ CheckShrink
    \/ UNCHANGED interfaceVars /\ \E hasSecureBuffer \in BOOLEAN : Flip(hasSecureBuffer)
    \/ UNCHANGED interfaceVars /\ ReleaseAll
    \/ UNCHANGED interfaceVars /\ \E layer \in Layers : Cleanup(layer)
    \/ UNCHANGED interfaceVars
          /\ \E layer \in Layers, ds \in UncacheSets : UncacheLayerBuffers(layer, ds)
    \/ UNCHANGED interfaceVars /\ DestroyAllSecureBuffers
    \/ UNCHANGED interfaceVars /\ RmFBCheck
    \/ UNCHANGED interfaceVars /\ RmFBSplice
    \/ UNCHANGED interfaceVars /\ RmFBDestroy

\* the reclaimer thread is scheduled; the callers of the manager may stop
\* calling at any point
SpecReclaim == Init /\ [][NextReclaim]_vars /\ WF_vars(Reclaimer)

(* ----------------------- vsync to the client --------------------------- *)

\* getDisplayConfigs(outNumConfigs, NULL) after the connector's modes have
\* changed: the plug state it leaves is whether the connector is connected
\* and has modes
GetDisplayConfigs(connected) ==
    /\ pcM = "idle"
    /\ mPlugState # connected
    /\ mPlugState' = connected
    /\ UNCHANGED <<producerVars, mVsyncTimeStamp, mVsyncEnabled, now, nVsync,
                   mLastVsyncTimestamp, mModeSetFence, mVsyncPeriod, vsyncControl,
                   mDesiredVsyncPeriod, active_mode>>

\* the config requested under SpecForward: the 120 Hz mode of the first
\* resolution
ForwardConfig == 2

NextForward ==
    \/ SetActiveConfigWithConstraints(ForwardConfig, FALSE, "NO_ERROR", LibOk)
    \/ SetActiveConfig(FirstConfig, FALSE, "NO_ERROR", LibOk)
    \/ ModeCommitted
    \/ DeliverWinConfigData(LibOk, "NO_ERROR")
    \/ FrameCommitted
    \/ commit("NO_ERROR", FALSE)
    \/ Destructor
    \/ \E delta \in Deltas, mismatching \in BOOLEAN : CallbackVsync(delta, mismatching)
    \/ FenceSignaled
    \/ \E enabled \in BOOLEAN : SetVsyncEnabled(enabled)
    \/ \E connected \in BOOLEAN : GetDisplayConfigs(connected)

\* a refresh-rate switch with the vsync thread, the client enabling and
\* disabling vsync and the display plugged and unplugged
SpecForward == Init /\ [][NextForward]_vars

(* ------------------------------ properties ----------------------------- *)

\* the BufferIdentity of a window config: buffer id, DRM format and protection
\* of a buffer, the dimensions of a solid color
IdentityOf(cfg) ==
    IF cfg.state = "WIN_STATE_COLOR"
    THEN SolidColorDesc(DstW, DstH)
    ELSE BufferDesc(cfg.buffer_id, halFormatToExynosFormat(cfg.format).drmFormat,
                    cfg.protection)

\* the bucket getBuffer looks a config up in
OwnerBucket(cfg) ==
    Bucket(IF cfg.protection THEN mCachedSecureLayerBuffers ELSE mCachedLayerBuffers,
           cfg.layer)

\* that bucket after the step
OwnerBucketNext(cfg) ==
    Bucket(IF cfg.protection THEN mCachedSecureLayerBuffers' ELSE mCachedLayerBuffers',
           cfg.layer)

\* the configs that pass getBuffer's format checks
Cacheable(cfg) ==
    /\ cfg.state \in {"WIN_STATE_BUFFER", "WIN_STATE_RCD", "WIN_STATE_COLOR"}
    /\ cfg.state # "WIN_STATE_COLOR" => halFormatToExynosFormat(cfg.format).known

\* the positions of a list whose entry has the given descriptor
Matching(list, desc) == {i \in 1..Len(list) : list[i].desc = desc}

\* no list of the map holds two entries with one descriptor
NoDuplicateIdentity(cached) ==
    \A l \in DOMAIN cached :
        \A i, j \in 1..Len(cached[l]) : cached[l][i].desc = cached[l][j].desc => i = j

\* every Framebuffer held by the maps, the reclaim list and the reclaimer's
\* local list
Held ==
    SpliceAll(mCachedLayerBuffers, Owners) \o SpliceAll(mCachedSecureLayerBuffers, Owners)
    \o mCleanBuffers \o cleanupBuffers

HeldCount(f) == Cardinality({i \in 1..Len(Held) : Held[i].fbId = f})

\* the framebuffers on the reclaim list or the reclaimer's local list: evicted
Evicted(f) ==
    \/ \E i \in 1..Len(mCleanBuffers) : mCleanBuffers[i].fbId = f
    \/ \E i \in 1..Len(cleanupBuffers) : cleanupBuffers[i].fbId = f

\* C1 as stated: getBuffer calls for one owner and identity with no eviction
\* in between create the kernel framebuffer once; the kernel never holds two
\* framebuffers created for one owner and identity unless one was evicted
C1_AsStated ==
    \A f, g \in FbIds :
        (f # g /\ kernelFbs[f] # NoFb /\ kernelFbs[f] = kernelFbs[g])
        => Evicted(f) \/ Evicted(g)

\* C1, for an (owner, identity) that is in the owner's bucket: the getBuffer
\* call makes no framebuffer-creation call, changes no container and returns
\* the fbId of the cached entry; no bucket ever holds two entries of one
\* identity
C1_CacheIdempotence ==
    [][/\ \A cfg \in Configs :
            (/\ Cacheable(cfg)
             /\ Matching(OwnerBucket(cfg), IdentityOf(cfg)) # {}
             /\ GetBufferCreate(cfg, MaxFb))
            => /\ lastOp'.op = "getBuffer" /\ lastOp'.flag /\ lastOp'.ret = "NO_ERROR"
               /\ \E i \in Matching(OwnerBucket(cfg), IdentityOf(cfg)) :
                      lastOp'.fbId = OwnerBucket(cfg)[i].fbId
               /\ pcP' = "idle"
               /\ UNCHANGED <<cacheVars, kernelVars>>
       /\ NoDuplicateIdentity(mCachedLayerBuffers')
       /\ NoDuplicateIdentity(mCachedSecureLayerBuffers')]_vars

\* a getBuffer call hit the cache and returned the fbId of an entry that is
\* still cached
C1_Witness ==
    /\ lastOp.op = "getBuffer" /\ lastOp.flag
    /\ \E i \in 1..Len(Held) : Held[i].fbId = lastOp.fbId
    /\ rmCount[lastOp.fbId] = 0

\* C2: after flip(false), and after destroyAllSecureBuffers(), the secure map
\* has no owner and every Framebuffer it held is on the reclaim list
C2_SecureIsolation ==
    [][(Flip(FALSE) \/ DestroyAllSecureBuffers)
       => /\ mCachedSecureLayerBuffers' = EmptyMap
          /\ \A l \in DOMAIN mCachedSecureLayerBuffers :
                 \A i \in 1..Len(mCachedSecureLayerBuffers[l]) :
                     \E j \in 1..Len(mCleanBuffers') :
                         mCleanBuffers'[j] = mCachedSecureLayerBuffers[l][i]]_vars

\* flip(false) has moved two secure framebuffers to the reclaim list
C2_Witness ==
    /\ lastOp.op = "flip" /\ ~lastOp.flag /\ lastOp.moved = 2
    /\ mCachedSecureLayerBuffers = EmptyMap
    /\ \E j \in 1..Len(mCleanBuffers) : mCleanBuffers[j].desc.isSecure

\* C3: every Framebuffer object is held by exactly one of the two maps, the
\* reclaim list and the reclaimer's local list until it is destroyed, and is
\* destroyed (drmModeRmFB) at most once
C3_NoDoubleFree ==
    \A f \in FbIds :
        /\ rmCount[f] <= 1
        /\ f \in fbObjects => HeldCount(f) + rmCount[f] = 1
        /\ f \notin fbObjects => HeldCount(f) = 0 /\ rmCount[f] = 0

\* the reclaimer has destroyed one Framebuffer while another one waits on the
\* reclaim list
C3_Witness ==
    /\ \E f \in FbIds : rmCount[f] = 1
    /\ mCleanBuffers # <<>>
    /\ pcR = "wait"

\* the positions of the reclaim list that hold an entry of the list
OnReclaimList(list, reclaim) ==
    \A i \in 1..Len(list) : \E j \in 1..Len(reclaim) : reclaim[j] = list[i]

\* what a flip's shrink pass does to one map, as C4 and C10 state it and as
\* the code does it
EvictsNotInuse(cached, inuse, cachedNext) ==
    \A l \in DOMAIN cached :
        l \notin inuse => l \notin DOMAIN cachedNext /\ OnReclaimList(cached[l], mCleanBuffers')

KeepsInuse(cached, inuse, cachedNext) ==
    \A l \in DOMAIN cached :
        l \in inuse => l \in DOMAIN cachedNext /\ cachedNext[l] = cached[l]

\* C4 as stated: cap + 1 identities inserted for one owner, the next flip with
\* shrink pending moves the owner's whole bucket to the reclaim list
C4_AsStated ==
    [][\A hasSecureBuffer \in BOOLEAN :
          Flip(hasSecureBuffer)
          => /\ \A l \in DOMAIN mCachedLayerBuffers :
                    (/\ mCacheShrinkPending
                     /\ Len(mCachedLayerBuffers[l]) = MAX_CACHED_BUFFERS_PER_LAYER + 1)
                    => /\ l \notin DOMAIN mCachedLayerBuffers'
                       /\ OnReclaimList(mCachedLayerBuffers[l], mCleanBuffers')
             /\ \A l \in DOMAIN mCachedSecureLayerBuffers :
                    (/\ mCacheSecureShrinkPending
                     /\ Len(mCachedSecureLayerBuffers[l])
                            = MAX_CACHED_SECURE_BUFFERS_PER_LAYER + 1)
                    => /\ l \notin DOMAIN mCachedSecureLayerBuffers'
                       /\ OnReclaimList(mCachedSecureLayerBuffers[l], mCleanBuffers')]_vars

\* C4, amended: flip's shrink pass does not look at bucket sizes.  An owner
\* marked in use keeps its whole bucket, of cap + 1 entries too (the secure one
\* unless flip(false) clears the secure map); an owner not marked in use loses
\* its whole bucket to the reclaim list when shrink is pending and the in-use
\* set's size differs from the map's owner count.  A bucket of cap + 1 entries
\* is moved whole to the reclaim list by its owner's next insertion, which
\* leaves the new entry alone in it
C4_CoarseEviction ==
    [][/\ \A hasSecureBuffer \in BOOLEAN :
            Flip(hasSecureBuffer)
            => /\ KeepsInuse(mCachedLayerBuffers, mCachedLayersInuse, mCachedLayerBuffers')
               /\ hasSecureBuffer
                      => KeepsInuse(mCachedSecureLayerBuffers, mCachedSecureLayersInuse,
                                    mCachedSecureLayerBuffers')
               /\ (/\ mCacheShrinkPending
                   /\ Cardinality(mCachedLayersInuse)
                          # Cardinality(DOMAIN mCachedLayerBuffers))
                      => EvictsNotInuse(mCachedLayerBuffers, mCachedLayersInuse,
                                        mCachedLayerBuffers')
               /\ (/\ mCacheSecureShrinkPending
                   /\ Cardinality(mCachedSecureLayersInuse)
                          # Cardinality(DOMAIN mCachedSecureLayerBuffers))
                      => EvictsNotInuse(mCachedSecureLayerBuffers, mCachedSecureLayersInuse,
                                        mCachedSecureLayerBuffers')
       /\ (/\ GetBufferInsert
           /\ Len(OwnerBucket(config)) = maxCachedBufferSize(config.protection) + 1)
              => /\ OwnerBucketNext(config) = <<Framebuffer(fbId, IdentityOf(config))>>
                 /\ mCleanBuffers' = mCleanBuffers \o OwnerBucket(config)]_vars

\* a flip with shrink pending has evicted an owner and left the secure bucket
\* of cap + 1 entries of the layer marked in use
C4_Witness ==
    /\ lastOp.op = "flip" /\ lastOp.flag
    /\ mCacheSecureShrinkPending
    /\ Len(Bucket(mCachedSecureLayerBuffers, "L1")) = MAX_CACHED_SECURE_BUFFERS_PER_LAYER + 1

\* C5 as stated: a miss puts the new entry at the front of the owner's bucket;
\* when the insertion pushes the bucket's size over the cap, all prior
\* entries move to the reclaim list and the new entry is left alone
C5_AsStated ==
    [][GetBufferInsert
       => LET prior == OwnerBucket(config)
              new == Framebuffer(fbId, IdentityOf(config))
          IN  IF Len(prior) + 1 > maxCachedBufferSize(config.protection)
              THEN /\ OwnerBucketNext(config) = <<new>>
                   /\ mCleanBuffers' = mCleanBuffers \o prior
              ELSE /\ OwnerBucketNext(config) = <<new>> \o prior
                   /\ mCleanBuffers' = mCleanBuffers]_vars

\* C5, amended: a miss puts the new entry at the front of the owner's bucket;
\* when the bucket already held more than cap entries before the insertion,
\* all prior entries move to the reclaim list and the new entry is left
\* alone; otherwise nothing moves, so a bucket grows to cap + 1 entries
C5_InsertionOverflow ==
    [][GetBufferInsert
       => LET prior == OwnerBucket(config)
              new == Framebuffer(fbId, IdentityOf(config))
          IN  IF Len(prior) > maxCachedBufferSize(config.protection)
              THEN /\ OwnerBucketNext(config) = <<new>>
                   /\ mCleanBuffers' = mCleanBuffers \o prior
              ELSE /\ OwnerBucketNext(config) = <<new>> \o prior
                   /\ mCleanBuffers' = mCleanBuffers]_vars

\* an insertion found cap + 1 entries in the secure bucket and moved them all
C5_Witness ==
    /\ lastOp.op = "getBuffer" /\ ~lastOp.flag /\ lastOp.ret = "NO_ERROR"
    /\ lastOp.moved = MAX_CACHED_SECURE_BUFFERS_PER_LAYER + 1
    /\ Len(Bucket(mCachedSecureLayerBuffers, "L1")) = 1
    /\ mCachedSecureLayerBuffers["L1"][1].fbId = lastOp.fbId

\* C6: a getBuffer call that returns an error leaves both maps and the
\* reclaim list as they were
C6_FailureLeavesCache ==
    [][\/ UNCHANGED cacheVars
       \/ ~ \E cfg \in Configs :
               /\ pcP' = "idle"
               /\ lastOp'.op = "getBuffer" /\ lastOp'.ret # "NO_ERROR"
               /\ GetBufferCreate(cfg, MaxFb)]_vars

\* a getBuffer call failed while the maps and the reclaim list held entries
C6_Witness ==
    /\ lastOp.op = "getBuffer" /\ lastOp.ret = "-ENOMEM"
    /\ mCachedLayerBuffers # EmptyMap
    /\ mCachedSecureLayerBuffers # EmptyMap
    /\ mCleanBuffers = <<>>
    /\ nextFbId = 3

\* C7 as stated: every GEM handle a failing getBuffer call imported is closed
\* before the call returns
C7_AsStated ==
    (lastOp.op = "getBuffer" /\ lastOp.ret # "NO_ERROR") => lastOp.gemOpen = 0

\* C8: cleanup(layer) erases the layer from both maps and appends its
\* non-secure and its secure entries to the reclaim list; other owners keep
\* their buckets
C8_Cleanup ==
    [][\A layer \in Layers :
          Cleanup(layer)
          => /\ mCachedLayerBuffers' = MapErase(mCachedLayerBuffers, layer)
             /\ mCachedSecureLayerBuffers' = MapErase(mCachedSecureLayerBuffers, layer)
             /\ mCleanBuffers' = mCleanBuffers \o Bucket(mCachedLayerBuffers, layer)
                                               \o Bucket(mCachedSecureLayerBuffers, layer)]_vars

\* cleanup has moved a non-secure and a secure entry of the layer
C8_Witness ==
    /\ lastOp.op = "cleanup" /\ lastOp.moved = 2
    /\ "L1" \notin DOMAIN mCachedLayerBuffers
    /\ "L1" \notin DOMAIN mCachedSecureLayerBuffers
    /\ Len(mCleanBuffers) = 2
    /\ mCleanBuffers[1].desc.isSecure # mCleanBuffers[2].desc.isSecure

\* C9: uncacheLayerBuffers(layer, buffers) moves exactly the entries of the
\* layer whose descriptor is one of the buffers' to the reclaim list, leaves
\* the others in place and signals the reclaimer iff an entry moved (the
\* first conjunct of the premise follows from the second and is evaluated
\* first)
C9_Uncache ==
    [][\A layer \in Layers, ds \in UncacheSets :
          (/\ lastOp' = lastOp \/ lastOp'.op = "uncacheLayerBuffers"
           /\ UncacheLayerBuffers(layer, ds))
          => LET list == Bucket(mCachedLayerBuffers, layer)
                 listSecure == Bucket(mCachedSecureLayerBuffers, layer)
                 m == SelectSeq(list, LAMBDA fb : fb.desc \in ds)
                 ms == SelectSeq(listSecure, LAMBDA fb : fb.desc \in ds)
             IN  /\ DOMAIN mCachedLayerBuffers' = DOMAIN mCachedLayerBuffers
                 /\ DOMAIN mCachedSecureLayerBuffers' = DOMAIN mCachedSecureLayerBuffers
                 /\ \A l \in DOMAIN mCachedLayerBuffers :
                        mCachedLayerBuffers'[l] =
                            IF l = layer THEN SelectSeq(list, LAMBDA fb : fb.desc \notin ds)
                            ELSE mCachedLayerBuffers[l]
                 /\ \A l \in DOMAIN mCachedSecureLayerBuffers :
                        mCachedSecureLayerBuffers'[l] =
                            IF l = layer
                            THEN SelectSeq(listSecure, LAMBDA fb : fb.desc \notin ds)
                            ELSE mCachedSecureLayerBuffers[l]
                 /\ mCleanBuffers' = mCleanBuffers \o m \o ms
                 /\ (pcR = "wait" /\ Len(m) + Len(ms) > 0) => pcR' = "woken"
                 /\ (pcR # "wait" \/ Len(m) + Len(ms) = 0) => pcR' = pcR]_vars

\* uncacheLayerBuffers has moved one of the layer's two secure entries and
\* woken the reclaimer
C9_Witness ==
    /\ lastOp.op = "uncacheLayerBuffers" /\ lastOp.moved = 1
    /\ Len(Bucket(mCachedSecureLayerBuffers, "L1")) = 1
    /\ Len(mCleanBuffers) = 1
    /\ pcR = "woken"

\* C10 as stated: a flip with shrink pending moves the bucket of every owner
\* not marked in use to the reclaim list, keeps the bucket of every owner
\* marked in use and leaves the in-use set empty
C10_AsStated ==
    [][\A hasSecureBuffer \in BOOLEAN :
          Flip(hasSecureBuffer)
          => /\ mCacheShrinkPending
                    => /\ EvictsNotInuse(mCachedLayerBuffers, mCachedLayersInuse,
                                         mCachedLayerBuffers')
                       /\ KeepsInuse(mCachedLayerBuffers, mCachedLayersInuse,
                                     mCachedLayerBuffers')
                       /\ mCachedLayersInuse' = {}
             /\ (mCacheSecureShrinkPending /\ hasSecureBuffer)
                    => /\ EvictsNotInuse(mCachedSecureLayerBuffers,
                                         mCachedSecureLayersInuse,
                                         mCachedSecureLayerBuffers')
                       /\ KeepsInuse(mCachedSecureLayerBuffers, mCachedSecureLayersInuse,
                                     mCachedSecureLayerBuffers')
                       /\ mCachedSecureLayersInuse' = {}]_vars

(* ------------------------------ releaseAll ----------------------------- *)

\* every cached framebuffer of both maps, in the order releaseAll clears them
AllCached ==
    SpliceAll(mCachedLayerBuffers, DOMAIN mCachedLayerBuffers)
    \o SpliceAll(mCachedSecureLayerBuffers, DOMAIN mCachedSecureLayerBuffers)

\* C11 as stated: releaseAll empties both bucket maps by moving every cached
\* framebuffer to the reclaim list and destroys no framebuffer itself
C11_AsStated ==
    [][ReleaseAll
       => /\ mCachedLayerBuffers' = EmptyMap
          /\ mCachedSecureLayerBuffers' = EmptyMap
          /\ mCleanBuffers' = mCleanBuffers \o AllCached
          /\ rmCount' = rmCount]_vars

(* --------------------------- atomic transaction ------------------------ *)

\* the values written to the properties: a flag, an object id or a blob id
PropValues == 0..MaxBlob

\* C12: atomicAddProperty returns -EINVAL and adds nothing for a property
\* whose id is 0 when optional is false; it returns NO_ERROR and adds nothing
\* for a property whose id is 0 when optional is true, and when validateChange
\* reports the value unchanged; the property set changes only for a non-zero
\* id and a changed value, by exactly the one item (object, property, value);
\* stated of a further addition to every transaction about to be committed
C12_AddProperty ==
    pcM = "commit"
    => \A id \in {"crtc", "connector"}, property \in Props, value \in PropValues,
          optional \in BOOLEAN, libRet \in {"NO_ERROR", "-ENOMEM"} :
          LET r == atomicAddProperty(drmReq, propId, propValue, id, property, value,
                                     optional, libRet)
              changed == validateChange(propValue, property, value)
              item == [object |-> id, property |-> property, value |-> value]
          IN  /\ (propId[property] = 0 /\ ~optional)
                     => (r.ret = "-EINVAL" /\ r.req = drmReq)
              /\ (propId[property] = 0 /\ optional)
                     => (r.ret = "NO_ERROR" /\ r.req = drmReq)
              /\ (propId[property] # 0 /\ ~changed)
                     => (r.ret = "NO_ERROR" /\ r.req = drmReq)
              /\ r.req # drmReq
                     => /\ propId[property] # 0 /\ changed
                        /\ r.req = [drmReq EXCEPT !.mPset = Append(@, item)]
              /\ (propId[property] # 0 /\ changed /\ libRet = "NO_ERROR")
                     => Len(r.req.mPset) = Len(drmReq.mPset) + 1

\* setDisplayMode has added the crtc active flag and has been refused the
\* unsupported crtc mode property: the call returns -EINVAL
C12_Witness ==
    /\ pcM = "return"
    /\ call.ret = "-EINVAL"
    /\ propId["mode_id"] = 0
    /\ Len(drmReq.mPset) = 1
    /\ drmReq.mPset[1].property = "active"

\* C13: a commit invokes the registered ack callback exactly once when it
\* returns 0 and its flags do not contain DRM_MODE_ATOMIC_TEST_ONLY; it does
\* not invoke it for a test-only commit, for a commit that returns an error or
\* when none is registered, and no other step of a call invokes it
C13_AckCallback ==
    [][/\ pcM = "commit"
          => LET testOnly == "DRM_MODE_ATOMIC_TEST_ONLY" \in call.flags
                 registered == drmReq.mAckCallback # 0
             IN  /\ lastCommit'.made /\ lastCommit'.ret = call'.ret
                 /\ (registered /\ lastCommit'.ret = "NO_ERROR" /\ ~testOnly)
                        => lastCommit'.acks = 1
                 /\ (testOnly \/ lastCommit'.ret # "NO_ERROR" \/ ~registered)
                        => lastCommit'.acks = 0
       /\ pcM # "commit" => (lastCommit'.acks = lastCommit.acks \/ lastCommit' = NoCommit)]_vars

\* a frame commit that carried a mode set has returned 0 and has made the one
\* ack callback
C13_Witness ==
    /\ pcM = "post"
    /\ call.op = "deliverWinConfigData"
    /\ drmReq.mAckCallback # 0
    /\ lastCommit.ret = "NO_ERROR"
    /\ lastCommit.acks = 1

\* the elements of a sequence
Range(seq) == {seq[i] : i \in 1..Len(seq)}

\* the blobs a property set refers to
ReferencedBlobs(pset) ==
    {pset[i].value : i \in {j \in 1..Len(pset) : pset[j].property = "mode_id"}}

\* C14: a blob registered with addOldBlob is destroyed by the destructor of
\* its transaction and by no earlier step, so not before the commit has
\* returned; the mode blob a transaction about to be committed refers to has
\* not been destroyed
C14_OldBlobs ==
    [][/\ \A b \in BlobIds :
              (/\ blobRm'[b] # blobRm[b]
               /\ b \in Range(drmReq.mOldBlobs) \cup Range(drmReq'.mOldBlobs))
              => (pcM = "return" /\ pcM' = "idle" /\ b \in Range(drmReq.mOldBlobs))
       /\ (pcM = "return" /\ pcM' = "idle")
              => \A b \in Range(drmReq.mOldBlobs) : blobRm'[b] > blobRm[b]
       /\ pcM' = "commit"
              => \A b \in ReferencedBlobs(drmReq'.mPset) \cap BlobIds : blobRm'[b] = 0]_vars

\* a third request has superseded the desired mode again: the blob held as
\* old is on the old-blob list of the transaction, which is about to end
C14_Witness ==
    /\ pcM = "return"
    /\ call.op = "setActiveConfigWithConstraints"
    /\ ~call.test
    /\ Len(drmReq.mOldBlobs) = 1
    /\ blobRm[drmReq.mOldBlobs[1]] = 0
    /\ mDesiredModeState.old_blob_id # 0

(* ------------------------------ mode switch ---------------------------- *)

\* the step is the start of a setActiveConfigWithConstraints(cfg, test) call
Requests(cfg, test) ==
    /\ pcM = "idle"
    /\ pcM' # "idle"
    /\ call'.op = "setActiveConfigWithConstraints"
    /\ call'.config = cfg
    /\ call'.test = test

\* C15: setActiveConfigWithConstraints(M, test = false) with M the active
\* mode (active blob non-zero) and no desired mode pending creates no blob,
\* constructs no transaction, so adds no property and commits nothing, and
\* leaves the active and the desired mode state unchanged
C15_ModeIdempotence ==
    [][\A cfg \in ConfigIds :
          (/\ Requests(cfg, FALSE)
           /\ mActiveModeState.blob_id # 0
           /\ mActiveModeState.mode.id = cfg
           /\ ~needsModeSet(mDesiredModeState))
          => /\ nextBlobId' = nextBlobId
             /\ drmReq' = NoReq
             /\ pcM' = "return"
             /\ call'.ret = "NO_ERROR"
             /\ UNCHANGED <<mActiveModeState, mDesiredModeState, blobRm, propValue,
                            lastCommit>>]_vars

\* the active mode has been requested again, with nothing pending: the call
\* is about to return with no transaction
C15_Witness ==
    /\ pcM = "return"
    /\ call.op = "setActiveConfigWithConstraints"
    /\ ~call.test
    /\ mActiveModeState.blob_id # 0
    /\ call.config = mActiveModeState.mode.id
    /\ ~needsModeSet(mDesiredModeState)
    /\ drmReq = NoReq
    /\ call.ret = "NO_ERROR"

modeStateVars ==
    <<mActiveModeState, mDesiredModeState, mIsResolutionSwitchInProgress, mDesiredVsyncPeriod>>

\* setActiveConfigWithConstraints(cfg, test) reaches createModeBlob and
\* CreatePropertyBlob fails
BlobFailsInConstraints(cfg, test) ==
    /\ Requests(cfg, test)
    /\ \E m \in Modes : m.id = cfg
    /\ ~sameMode(mDesiredModeState, mActiveModeState, cfg)
    /\ modeChanged(mDesiredModeState, cfg)
    /\ \E libRets \in LibRets : SetActiveConfigWithConstraints(cfg, test, "-ENOMEM", libRets)

\* setActiveDrmMode(mode of cfg) reaches createModeBlob and CreatePropertyBlob
\* fails
BlobFailsInDrmMode(cfg, skipFrame) ==
    /\ pcM = "idle"
    /\ pcM' # "idle"
    /\ call'.op = "setActiveDrmMode"
    /\ call'.config = cfg
    /\ \E m \in Modes : m.id = cfg
    /\ ~(/\ ~skipFrame
         /\ mActiveModeState.blob_id # 0
         /\ mActiveModeState.mode.id = cfg
         /\ ~needsModeSet(mActiveModeState))
    /\ \E libRets \in LibRets : SetActiveConfig(cfg, skipFrame, "-ENOMEM", libRets)

\* C17: when createModeBlob fails in setActiveConfigWithConstraints or in
\* setActiveDrmMode the call returns an error, and the active mode state, the
\* desired mode state, the resolution switch flag and the desired vsync
\* period are as before the call, up to and including its return
C17_BlobFailure ==
    [][/\ \A cfg \in ConfigIds, b \in BOOLEAN :
            (BlobFailsInConstraints(cfg, b) \/ BlobFailsInDrmMode(cfg, b))
            => /\ pcM' = "return"
               /\ call'.ret = "HWC2_ERROR_BAD_CONFIG"
               /\ call'.modeBlob = 0
               /\ UNCHANGED modeStateVars
       /\ (pcM = "return" /\ call.ret = "HWC2_ERROR_BAD_CONFIG")
            => UNCHANGED <<modeStateVars, blobRm>>]_vars

\* a request for another mode has failed in createModeBlob while a mode
\* change was pending
C17_Witness ==
    /\ pcM = "return"
    /\ call.ret = "HWC2_ERROR_BAD_CONFIG"
    /\ call.config \in {m.id : m \in Modes}
    /\ needsModeSet(mDesiredModeState)
    /\ mDesiredModeState.mode.id # call.config
    /\ mActiveModeState.blob_id # 0

\* deliverWinConfigData has committed with a mode change pending and the
\* commit has failed
FrameFailedPending ==
    /\ pcM \in {"post", "return"}
    /\ call.op = "deliverWinConfigData"
    /\ lastCommit.made
    /\ lastCommit.ret # "NO_ERROR"
    /\ needsModeSet(mDesiredModeState)

\* C18: when the frame commit of deliverWinConfigData fails with a desired
\* mode pending, the desired mode and its blob stay pending and the active
\* mode state is unchanged up to the return of the call, the blob is not
\* destroyed, and a deliverWinConfigData that follows the return embeds the
\* same blob
C18_FailedFrameKeepsPending ==
    [][FrameFailedPending
       => /\ UNCHANGED <<mActiveModeState, mDesiredModeState>>
          /\ blobRm'[mDesiredModeState.blob_id] = 0
          /\ \A libRets \in LibRets :
                 (pcM' = "idle" /\ propId["mode_id"] # 0)
                 => LET d == setDisplayMode(NewReq, propId, propValue',
                                            configChangeCallback, mDesiredModeState'.blob_id,
                                            mDesiredModeState'.mode.id, libRets)
                    IN  d.ret = "NO_ERROR"
                        => mDesiredModeState.blob_id \in ReferencedBlobs(d.req.mPset)]_vars

\* a frame commit with the pending mode's blob in its property set has been
\* rejected by the kernel
C18_Witness ==
    /\ pcM = "return"
    /\ call.op = "deliverWinConfigData"
    /\ lastCommit.made
    /\ lastCommit.kernelRet = "-EINVAL"
    /\ call.ret = "-EINVAL"
    /\ needsModeSet(mDesiredModeState)
    /\ mDesiredModeState.blob_id \in ReferencedBlobs(drmReq.mPset)
    /\ mActiveModeState.blob_id # 0

\* the kernel has rejected the frame commit of deliverWinConfigData with
\* EPERM while in TUI, with a mode change pending for the commit
FrameRejectedInTUI ==
    /\ pcM = "post"
    /\ call.op = "deliverWinConfigData"
    /\ lastCommit.made
    /\ lastCommit.kernelRet = "-EPERM"
    /\ lastCommit.ret = "NO_ERROR"
    /\ needsModeSet(mDesiredModeState)

\* C19: when the kernel rejects a frame commit with EPERM while the device
\* is in TUI, commit returns success with no error recorded, and the desired
\* mode that was pending for the commit is pending still afterwards
C19_AsStated ==
    [][FrameRejectedInTUI
       => /\ call.ret = "NO_ERROR"
          /\ drmReq.mError = "NO_ERROR"
          /\ mDesiredModeState' = mDesiredModeState
          /\ needsModeSet(mDesiredModeState')
          /\ mActiveModeState' = mActiveModeState]_vars

\* what does hold of the commit itself: an EPERM in TUI is returned as
\* success and no error is recorded on the transaction
C19_CommitSwallowsEPERM ==
    (pcM = "post" /\ lastCommit.made /\ lastCommit.kernelRet = "-EPERM")
    => IF lastCommit.ret = "NO_ERROR"
       THEN call.ret = "NO_ERROR" /\ drmReq.mError = "NO_ERROR"
       ELSE call.ret = "-EPERM" /\ drmReq.mError = "-EPERM"

\* the rejected commit carried the pending blob, and the call has made the
\* desired mode the active one although the kernel has not applied it
C19_Promoted ==
    /\ pcM = "return"
    /\ call.op = "deliverWinConfigData"
    /\ lastCommit.kernelRet = "-EPERM"
    /\ call.ret = "NO_ERROR"
    /\ ~needsModeSet(mDesiredModeState)
    /\ mActiveModeState.blob_id \in ReferencedBlobs(drmReq.mPset)
    /\ propValue["mode_id"] # mActiveModeState.blob_id

\* the property set has an item for the object, property and value given
Carries(pset, id, property, value) ==
    \E i \in 1..Len(pset) :
        pset[i] = [object |-> id, property |-> property, value |-> value]

\* deliverWinConfigData has built its transaction with a mode change pending
\* and is about to commit it
FrameBuiltPending ==
    /\ pcM = "idle"
    /\ pcM' = "commit"
    /\ call'.op = "deliverWinConfigData"
    /\ needsModeSet(mDesiredModeState)

\* the commit of deliverWinConfigData has returned success with a mode change
\* pending: the desired mode and blob become the active mode state, nothing
\* stays pending, the desired vsync period is the period of the new mode and
\* the hardware vsync is enabled
FramePromotes ==
    (/\ pcM = "post"
     /\ call.op = "deliverWinConfigData"
     /\ call.ret = "NO_ERROR"
     /\ needsModeSet(mDesiredModeState))
    => /\ mActiveModeState'.mode = mDesiredModeState.mode
       /\ mActiveModeState'.blob_id = mDesiredModeState.blob_id
       /\ ~needsModeSet(mDesiredModeState')
       /\ mDesiredModeState'.blob_id = 0
       /\ mDesiredVsyncPeriod' = mDesiredModeState.mode.te_period
       /\ vsyncControl' = TRUE

CallbackWithDesired ==
    /\ vsyncControl
    /\ nVsync' = nVsync + 1
    /\ mDesiredVsyncPeriod # 0
    /\ mVsyncTimeStamp > 0

\* C21: with a desired vsync period set, the callback reports the switch
\* applied on a vsync if and only if the observed period (this timestamp
\* minus the previous one) is within 20% of the desired period, or the
\* mode-set fence has signaled and the timestamp is past the signal time plus
\* the transient duration times the period less the margin; otherwise the
\* desired period stays set
C21_AsStated ==
    [][CallbackWithDesired
       => LET observed == now' - mVsyncTimeStamp
              applied == \/ within20Percent(mDesiredVsyncPeriod, observed)
                         \/ modeSwitchTimeReached(now', mModeSetFence, observed,
                                                  mDesiredVsyncPeriod)
          IN  /\ (mDesiredVsyncPeriod' = 0) <=> applied
              /\ ~applied => mDesiredVsyncPeriod' = mDesiredVsyncPeriod]_vars

\* what does hold: the same for observed periods whose difference from the
\* desired period fits an int32_t
C21_WithinInt32 ==
    [][CallbackWithDesired
       => LET observed == now' - mVsyncTimeStamp
              applied == \/ within20Percent(mDesiredVsyncPeriod, observed)
                         \/ modeSwitchTimeReached(now', mModeSetFence, observed,
                                                  mDesiredVsyncPeriod)
          IN  2 * abs(mDesiredVsyncPeriod - observed) < Int32Span
              => /\ (mDesiredVsyncPeriod' = 0) <=> applied
                 /\ ~applied => mDesiredVsyncPeriod' = mDesiredVsyncPeriod]_vars

\* a vsync that came 2^32 ns and one desired period after the previous one
\* has confirmed the switch
C21_Wrapped ==
    /\ nVsync > 0
    /\ mVsyncTimeStamp = now
    /\ mVsyncPeriod > Int32Span
    /\ mDesiredVsyncPeriod = 0
    /\ mActiveModeState.blob_id # 0
    /\ periodMatches(mActiveModeState.mode.te_period, mVsyncPeriod)
    /\ ~within20Percent(mActiveModeState.mode.te_period, mVsyncPeriod)

\* the step is a vsync callback made while a desired vsync period is set
CallbackPending ==
    /\ vsyncControl
    /\ nVsync' = nVsync + 1
    /\ mDesiredVsyncPeriod # 0

\* what does hold of convergence: a vsync whose measured period is within
\* 20% of the desired period, or that comes after the transient duration
\* from the signal of the mode-set fence, confirms the switch: the desired
\* period is reset and the connector's active mode is the committed mode
C22_Converges ==
    [][(CallbackPending /\ mVsyncTimeStamp > 0)
       => LET observed == now' - mVsyncTimeStamp
          IN  (\/ within20Percent(mDesiredVsyncPeriod, observed)
               \/ modeSwitchTimeReached(now', mModeSetFence, observed, mDesiredVsyncPeriod))
              => /\ mDesiredVsyncPeriod' = 0
                 /\ active_mode' = mActiveModeState.mode.id]_vars

\* C22: after the commit of a desired mode, a vsync whose period is within
\* 20% of the desired period or that comes after the transient duration
\* confirms the switch, and the switch is never confirmed on a vsync that
\* precedes the first period measured after the commit: a vsync that
\* confirms has measured its period from a previous timestamp
C22_AsStated ==
    [][CallbackPending
       => /\ mVsyncTimeStamp > 0
             => LET observed == now' - mVsyncTimeStamp
                IN  (\/ within20Percent(mDesiredVsyncPeriod, observed)
                     \/ modeSwitchTimeReached(now', mModeSetFence, observed,
                                              mDesiredVsyncPeriod))
                    => /\ mDesiredVsyncPeriod' = 0
                       /\ active_mode' = mActiveModeState.mode.id
          /\ mDesiredVsyncPeriod' = 0 => mVsyncTimeStamp > 0]_vars

\* a resolution switch between two 120 Hz modes has been confirmed by the
\* first vsync after its commit, which measured no period
C22_Unmeasured ==
    /\ nVsync = 3
    /\ now = 24
    /\ ~mVsyncEnabled
    /\ mVsyncTimeStamp = 0
    /\ mDesiredVsyncPeriod = 0
    /\ mActiveModeState.mode.id = 3
    /\ active_mode = 3
    /\ mModeSetFence = Fence(TRUE, SIGNAL_TIME_PENDING)
    /\ mVsyncPeriod = 8

(* --- immediate mode set --- *)

\* the commit of setActiveDrmMode has returned success
ModeSetCommitted ==
    /\ pcM = "post"
    /\ call.op = "setActiveDrmMode"
    /\ call.ret = "NO_ERROR"

\* what does hold after setActiveConfig(M) with a successful commit: the
\* active mode state and the connector's active mode are M with the blob
\* created for M, and the active state needs no mode set
C23_ActiveIsM ==
    [][ModeSetCommitted
       => /\ mActiveModeState'.mode = ModeOf(call.config)
          /\ mActiveModeState'.blob_id = call.modeBlob
          /\ blobRm'[call.modeBlob] = 0
          /\ active_mode' = call.config
          /\ ~needsModeSet(mActiveModeState')
          /\ mVsyncPeriod' = ModeOf(call.config).te_period]_vars

\* C23: after setActiveConfig(M) for a mode M of the connector's list whose
\* commit succeeds the state is Stable(M) from whatever state preceded the
\* call: the active mode state and the connector's active mode are M with
\* M's blob, and no desired mode remains pending for a later frame
C23_AsStated ==
    [][ModeSetCommitted
       => /\ mActiveModeState'.mode = ModeOf(call.config)
          /\ mActiveModeState'.blob_id = call.modeBlob
          /\ active_mode' = call.config
          /\ ~needsModeSet(mDesiredModeState')]_vars

\* setActiveConfig(M) has succeeded and another mode is pending still
C23_StillPending ==
    /\ pcM = "return"
    /\ call.op = "setActiveDrmMode"
    /\ call.ret = "NO_ERROR"
    /\ lastCommit.kernelRet = "NO_ERROR"
    /\ mActiveModeState.mode.id = call.config
    /\ needsModeSet(mDesiredModeState)
    /\ mDesiredModeState.mode.id # call.config

(* --- commit failures --- *)

\* the result the caller of the operation in progress gets: setActiveConfig
\* returns 0 whatever its setActiveDrmMode returned
Returned(c) == IF c.op = "setActiveDrmMode" THEN "NO_ERROR" ELSE c.ret

\* the commit of the call in progress has failed and the call is about to
\* return
CommitFailed ==
    /\ pcM = "return"
    /\ lastCommit.made
    /\ lastCommit.ret # "NO_ERROR"

\* C24: every commit that fails, the EPERM in TUI apart, is surfaced as a
\* non-zero result to the caller of the operation that issued it
C24_AsStated == CommitFailed => Returned(call) # "NO_ERROR"

\* what does hold: deliverWinConfigData and the test of
\* setActiveConfigWithConstraints return the result of their failed commit,
\* setActiveDrmMode returns it to setActiveConfig, and the interface is idle
\* again after the return
C24_Surfaced ==
    [][CommitFailed
       => /\ call.ret = lastCommit.ret
          /\ call.op # "setActiveDrmMode" => Returned(call) = lastCommit.ret
          /\ pcM' = "idle"
          /\ drmReq' = NoReq]_vars

\* the commit of setActiveConfig's mode set has been rejected by the kernel
C24_Swallowed ==
    /\ CommitFailed
    /\ call.op = "setActiveDrmMode"
    /\ lastCommit.kernelRet = "-EINVAL"
    /\ call.ret = "-EINVAL"
    /\ Returned(call) = "NO_ERROR"

(* --- mode blobs --- *)

\* the blobs createModeBlob has created
CreatedBlobs == 1..(nextBlobId - 1)

\* no blob is destroyed twice
NoBlobDestroyedTwice == \A b \in BlobIds : blobRm[b] <= 1

\* no blob that was not created is destroyed
NoBlobDestroyedUncreated == \A b \in BlobIds \ CreatedBlobs : blobRm[b] = 0

\* C25: every mode blob created by createModeBlob is destroyed exactly once
\* over the lifetime of the interface, its destructor included: none is
\* destroyed twice and none is left when the interface is destroyed
C25_AsStated ==
    /\ NoBlobDestroyedTwice
    /\ pcM = "destroyed" => \A b \in CreatedBlobs : blobRm[b] = 1

\* what does hold: no blob is destroyed twice, none before it is created,
\* and when the interface is destroyed no blob held by a mode state is left
C25_AtMostOnce ==
    /\ NoBlobDestroyedTwice
    /\ NoBlobDestroyedUncreated
    /\ pcM = "destroyed"
       => \A b \in {mActiveModeState.blob_id, mActiveModeState.old_blob_id,
                    mDesiredModeState.blob_id, mDesiredModeState.old_blob_id} \ {0} :
              blobRm[b] = 1

\* the interface is destroyed and the blob of a test whose setDisplayMode
\* failed was never destroyed
C25_Leaked ==
    /\ pcM = "destroyed"
    /\ nextBlobId = 2
    /\ blobRm[1] = 0
    /\ mActiveModeState.blob_id = 0
    /\ mDesiredModeState.blob_id = 0

(* --------------------- required properties of a frame ------------------ *)

\* the required properties of the plane the hardware given lacks
UnsupportedRequired(ids) ==
    {PlaneProps[i] : i \in {j \in 1..Len(PlaneProps) :
                               PlaneProps[j] # "rotation" /\ ids[PlaneProps[j]] = 0}}

\* setupCommitFromDisplayConfig has its framebuffer and is about to add the
\* plane's properties
PlaneSetup == pcM = "fb" /\ pcP = "idle" /\ lastOp.ret = "NO_ERROR"

\* C26 as stated: when deliverWinConfigData adds a required property of the
\* frame's plane that the hardware does not support, it returns that error
\* (-EINVAL) and the transaction is not committed
C26_AsStated ==
    [][(PlaneSetup /\ UnsupportedRequired(propId) # {}
        /\ SetupCommitFromDisplayConfig("NO_ERROR"))
       => (pcM' = "return" /\ call'.ret = "-EINVAL")]_vars

\* what holds of C26: every unsupported required property of the plane but
\* src_y makes the frame return -EINVAL without a commit, and an unsupported
\* optional property (the rotation) is skipped
C26_ButSrcY ==
    [][(PlaneSetup /\ SetupCommitFromDisplayConfig("NO_ERROR"))
       => /\ UnsupportedRequired(propId) \ {"src_y"} # {}
             => (pcM' = "return" /\ call'.ret = "-EINVAL" /\ ~lastCommit'.made)
          /\ UnsupportedRequired(propId) = {}
             => (pcM' = "commit" /\ call'.ret = "NO_ERROR")]_vars

\* a frame whose plane has no src_y property has been committed and returns
\* NO_ERROR
C26_Committed ==
    /\ propId["src_y"] = 0
    /\ pcM = "return"
    /\ call.window \in WindowConfigs
    /\ lastCommit.made
    /\ lastCommit.kernelRet = "NO_ERROR"
    /\ call.ret = "NO_ERROR"
    /\ \E i \in 1..Len(drmReq.mPset) : drmReq.mPset[i].property = "src_w"
    /\ \A i \in 1..Len(drmReq.mPset) : drmReq.mPset[i].property # "src_y"

(* ----------------------- the frame's return callback ------------------- *)

\* deliverWinConfigData is about to return
FrameReturns == pcM = "return" /\ call.op = "deliverWinConfigData"

\* C27: when deliverWinConfigData returns -ENOMEM its return callback runs
\* releaseAll, which leaves both bucket maps and the reclaim list empty, and
\* the getBuffer of the next frame finds no cached framebuffer; the callback
\* runs flip exactly when the frame returns NO_ERROR with no error recorded
\* on its transaction; for every other result it runs neither and the cache
\* is as the frame left it
C27_ReturnCallback ==
    [][/\ (FrameReturns /\ Destructor)
          => /\ call.ret = "-ENOMEM"
                => /\ ReleaseAll
                   /\ mCachedLayerBuffers' = EmptyMap
                   /\ mCachedSecureLayerBuffers' = EmptyMap
                   /\ mCleanBuffers' = <<>>
             /\ (call.ret = "NO_ERROR" /\ drmReq.mError = "NO_ERROR")
                => Flip(call.window.protection)
             /\ (call.ret \notin {"NO_ERROR", "-ENOMEM"} \/
                 (call.ret = "NO_ERROR" /\ drmReq.mError # "NO_ERROR"))
                => UNCHANGED fbVars
       /\ (WindowGetBuffer /\ mCachedLayerBuffers = EmptyMap
           /\ mCachedSecureLayerBuffers = EmptyMap)
          => (lastOp'.op = "getBuffer" => ~lastOp'.flag)]_vars

\* a frame whose commit ran out of memory while a framebuffer was cached has
\* returned: releaseAll has destroyed the framebuffer and the maps are empty
C27_Witness ==
    /\ pcM = "idle"
    /\ lastOp.op = "releaseAll"
    /\ mCachedLayerBuffers = EmptyMap
    /\ mCachedSecureLayerBuffers = EmptyMap
    /\ \E f \in FbIds : rmCount[f] = 1

(* ------------------------------ flip's signal -------------------------- *)

\* the reclaimer is in mFlipDone.wait and the producer may call flip
FlipWhileWaiting == pcR = "wait" /\ pcP = "idle"

\* C28 as stated: flip() signals the condition variable (the waiting
\* reclaimer is woken) if and only if this call moved an entry to the
\* reclaim list
C28_AsStated ==
    [][FlipWhileWaiting
       => \A hasSecureBuffer \in BOOLEAN :
              Flip(hasSecureBuffer)
              => (pcR' = "woken" <=> Len(mCleanBuffers') > Len(mCleanBuffers))]_vars

\* C28 amended: flip() signals the condition variable if and only if the
\* reclaim list is not empty when flip() releases the mutex, whether this
\* call or an earlier cleanup or getBuffer put the entries there; it does
\* not signal when the list is empty
C28_SignalsNonEmpty ==
    [][FlipWhileWaiting
       => \A hasSecureBuffer \in BOOLEAN :
              Flip(hasSecureBuffer)
              => (pcR' = "woken" <=> Len(mCleanBuffers') > 0)]_vars

\* cleanup has moved a layer's framebuffers to the reclaim list and a later
\* call that moved nothing has woken the reclaimer for them
C28_Witness ==
    /\ pcR = "woken"
    /\ lastOp.op = "cleanup"
    /\ Len(mCleanBuffers) = lastOp.moved
    /\ lastOp.moved > 0
    /\ mCachedLayersInuse = {}
    /\ mCachedSecureLayersInuse = {}

(* ------------------------ mutex and kernel calls ----------------------- *)

\* a step makes a kernel call: a framebuffer is created or removed
KernelCall == nextFbId' # nextFbId \/ rmCount' # rmCount \/ kernelFbs' # kernelFbs

\* a step writes a container mMutex guards, which it does holding the mutex
WritesGuarded == cacheVars' # cacheVars

\* the reclaimer's step under the mutex drains the whole reclaim list into
\* its local list and removes no framebuffer; its step outside the mutex
\* removes the entries of the local list and no other
ReclaimerDrainsThenDestroys ==
    /\ RmFBSplice => (mCleanBuffers' = <<>>
                      /\ cleanupBuffers' = cleanupBuffers \o mCleanBuffers
                      /\ ~KernelCall)
    /\ RmFBDestroy => (rmCount' = DestroyAll(rmCount, cleanupBuffers)
                       /\ cleanupBuffers' = <<>>
                       /\ ~WritesGuarded)

\* C29 as stated: no step makes a kernel call while it holds the cache mutex:
\* the creation of a framebuffer in getBuffer and every removal of one, by
\* the reclaimer or by a cache operation, leave the guarded containers as
\* they are, and the reclaimer drains the reclaim list under the mutex and
\* destroys the entries after releasing it
C29_AsStated ==
    [][(KernelCall => ~WritesGuarded) /\ ReclaimerDrainsThenDestroys]_vars

\* what holds of C29: every step but releaseAll keeps kernel calls apart
\* from the writes of the guarded containers
C29_ButReleaseAll ==
    [][/\ (KernelCall /\ WritesGuarded) => ReleaseAll
       /\ ReclaimerDrainsThenDestroys]_vars

\* releaseAll has removed a cached framebuffer from the kernel in the step
\* that cleared the maps
C29_DestroyedUnderMutex ==
    /\ lastOp.op = "releaseAll"
    /\ mCachedLayerBuffers = EmptyMap
    /\ mCachedSecureLayerBuffers = EmptyMap
    /\ mCleanBuffers = <<>>
    /\ cleanupBuffers = <<>>
    /\ \E f \in FbIds : rmCount[f] = 1

(* ------------------------- reclaimer shutdown -------------------------- *)

\* C30: once ~FramebufferManager has cleared mRmFBThreadRunning under the
\* mutex, wherever the reclaimer is (about to test the flag, waiting, woken
\* and draining, destroying), the routine leaves its loop and join() returns
C30_ShutdownTerminates ==
    (~mRmFBThreadRunning) ~> (pcR = "done" /\ pcP = "destroyed")

\* the manager has been destroyed after its reclaimer had destroyed a
\* framebuffer: the routine has left its loop and join() has returned
C30_Witness ==
    /\ pcP = "destroyed"
    /\ pcR = "done"
    /\ ~mRmFBThreadRunning
    /\ cleanupBuffers = <<>>
    /\ \E f \in FbIds : rmCount[f] = 1

(* ---------------------- resolution switch in progress ------------------ *)

\* setActiveConfigWithConstraints(cfg, test = false) returns NO_ERROR in this
\* step
RequestAccepted(cfg) ==
    /\ pcM = "idle"
    /\ call'.op = "setActiveConfigWithConstraints"
    /\ ~call'.test
    /\ call'.config = cfg
    /\ call'.ret = "NO_ERROR"

\* the step marks a resolution switch in progress and disables automatic
\* blanking
MarksResolutionSwitch ==
    mIsResolutionSwitchInProgress' /\ vblankOffDelay' = 0

\* the step leaves the flag and the blanking delay as they are
KeepsResolutionSwitch ==
    UNCHANGED <<mIsResolutionSwitchInProgress, vblankOffDelay>>

\* C31 as stated: a non-test setActiveConfigWithConstraints marks a
\* resolution switch in progress and sets the vblank-off delay to 0 if and
\* only if the resolution of the requested mode differs from the resolution
\* of the active mode; a request that changes the refresh rate only leaves
\* both as they are
C31_AsStated ==
    [][\A cfg \in ConfigIds \ {4} :
          RequestAccepted(cfg)
          => IF isFullModeSwitch(mActiveModeState, ModeOf(cfg))
             THEN MarksResolutionSwitch
             ELSE KeepsResolutionSwitch]_vars

\* what holds of C31: the request marks the switch exactly when it creates a
\* blob (the config is not the desired mode's) and the resolution of the
\* requested mode differs from the resolution held in mDesiredModeState,
\* which is the empty mode whenever no request is pending
C31_AgainstDesired ==
    [][\A cfg \in ConfigIds \ {4} :
          RequestAccepted(cfg)
          => IF /\ call'.modeBlob # 0
                /\ isFullModeSwitch(mDesiredModeState, ModeOf(cfg))
             THEN MarksResolutionSwitch
             ELSE KeepsResolutionSwitch]_vars

\* a request for the other refresh rate of the active resolution, made with
\* nothing pending, has marked a resolution switch in progress
C31_RateOnlyMarked ==
    /\ pcM = "return"
    /\ call.op = "setActiveConfigWithConstraints"
    /\ ~call.test
    /\ mActiveModeState.mode = ModeOf(1)
    /\ mDesiredModeState.mode = ModeOf(2)
    /\ mDesiredModeState.old_blob_id = 0
    /\ mIsResolutionSwitchInProgress
    /\ vblankOffDelay = 0

\* the vsync callback reports in this step that the new mode is applied
ReportsApplied ==
    /\ pcM = "idle"
    /\ vsyncControl
    /\ nVsync' # nVsync
    /\ mDesiredVsyncPeriod # 0
    /\ mDesiredVsyncPeriod' = 0

\* the step clears the resolution switch in progress
ClearsResolutionSwitch ==
    mIsResolutionSwitchInProgress /\ ~mIsResolutionSwitchInProgress'

\* C32 as stated: the resolution switch in progress is cleared, and the
\* vblank-off delay set back to 1, by the vsync callback that reports the new
\* mode applied and by no other step, so that it is never set in a stable
\* state
C32_AsStated ==
    [][/\ ClearsResolutionSwitch => ReportsApplied
       /\ ReportsApplied /\ mIsResolutionSwitchInProgress
          => ~mIsResolutionSwitchInProgress' /\ vblankOffDelay' = 1]_vars

\* what holds of C32: the flag is cleared by DrmModeAtomicReq::commit, by the
\* first commit that finds no mode set needed, whatever the kernel answers;
\* that commit sets the delay back to 1, and no vsync callback changes either
C32_ClearedByCommit ==
    [][/\ ClearsResolutionSwitch
          => pcM = "commit" /\ ~needsModeSet(mDesiredModeState) /\ vblankOffDelay' = 1
       /\ pcM = "commit" /\ pcM' = "post" /\ ~needsModeSet(mDesiredModeState)
          => ~mIsResolutionSwitchInProgress'
       /\ pcM = "idle" /\ nVsync' # nVsync
          => UNCHANGED <<mIsResolutionSwitchInProgress, vblankOffDelay>>]_vars

\* the switch to the QHD mode is applied and reported and nothing is pending,
\* and the resolution switch is still in progress with blanking disabled
C32_StableStillSet ==
    /\ pcM = "idle"
    /\ mActiveModeState.mode = ModeOf(3)
    /\ active_mode = 3
    /\ ~needsModeSet(mDesiredModeState)
    /\ mDesiredVsyncPeriod = 0
    /\ mIsResolutionSwitchInProgress
    /\ vblankOffDelay = 0

(* --------------------------- framebuffer ownership --------------------- *)

\* the kernel holds framebuffer f and no getBuffer call is between creating
\* it and inserting it
Created(f) ==
    /\ kernelFbs[f] # NoFb
    /\ ~(pcP = "insert" /\ fbId = f)

\* C33 as stated: every kernel framebuffer getBuffer created is owned by
\* exactly one Framebuffer of the buckets, the reclaim list or the
\* reclaimer's local list, so that a later eviction releases it; no
\* framebuffer getBuffer created is owned by none
C33_AsStated ==
    \A f \in FbIds : Created(f) => HeldCount(f) = 1

\* what holds of C33: every framebuffer created for a config with a layer or
\* a buffer id is owned by exactly one Framebuffer
C33_OwnedWhenCached ==
    \A f \in FbIds :
        (Created(f) /\ (kernelFbs[f].layer # NullLayer \/ kernelFbs[f].desc.bufferId # 0))
        => HeldCount(f) = 1

\* getBuffer returned a framebuffer created for the null layer and buffer id
\* 0, and no Framebuffer owns it
C33_Leaked ==
    /\ pcP = "idle"
    /\ lastOp.op = "getBuffer" /\ ~lastOp.flag /\ lastOp.ret = "NO_ERROR"
    /\ kernelFbs[lastOp.fbId] # NoFb
    /\ kernelFbs[lastOp.fbId].layer = NullLayer
    /\ kernelFbs[lastOp.fbId].desc.bufferId = 0
    /\ HeldCount(lastOp.fbId) = 0

(* ------------------------------ bucket bound --------------------------- *)

\* no list of the map holds more than cap + 1 Framebuffers
BucketsWithin(cached, cap) ==
    \A o \in Owners : Len(Bucket(cached, o)) <= cap + 1

\* the step is the insertion of getBuffer for owner o, and it leaves the new
\* Framebuffer alone in the list
InsertionEmpties(cachedNext, o, isSecure) ==
    /\ pcP = "insert" /\ config.layer = o /\ config.protection = isSecure
    /\ Bucket(cachedNext, o) = <<Framebuffer(fbId, cachedDesc(config))>>

\* the step is a call other than getBuffer that takes Framebuffers out of
\* the list of o and adds none
EvictionRemoves(cached, cachedNext, o) ==
    /\ pcP = "idle" /\ pcP' = "idle"
    /\ lastOp'.op # "getBuffer"
    /\ Len(Bucket(cachedNext, o)) < Len(Bucket(cached, o))
    /\ \A i \in 1..Len(Bucket(cachedNext, o)) :
           \E j \in 1..Len(Bucket(cached, o)) : Bucket(cachedNext, o)[i] = Bucket(cached, o)[j]

\* a list of cap + 1 Framebuffers changes only by the next insertion for its
\* owner
PersistsUntilInsertion(cached, cachedNext, cap, isSecure) ==
    \A o \in Owners :
        (Len(Bucket(cached, o)) = cap + 1 /\ Bucket(cachedNext, o) # Bucket(cached, o))
        => InsertionEmpties(cachedNext, o, isSecure)

\* a list of cap + 1 Framebuffers changes only by the next insertion for its
\* owner or by an eviction
PersistsUntilInsertionOrEviction(cached, cachedNext, cap, isSecure) ==
    \A o \in Owners :
        (Len(Bucket(cached, o)) = cap + 1 /\ Bucket(cachedNext, o) # Bucket(cached, o))
        => \/ InsertionEmpties(cachedNext, o, isSecure)
           \/ EvictionRemoves(cached, cachedNext, o)

\* C34 as stated: in every reachable state every owner's list holds at most
\* cap + 1 Framebuffers (cap is MAX_CACHED_BUFFERS_PER_LAYER, and
\* MAX_CACHED_SECURE_BUFFERS_PER_LAYER in the secure map), and a list of
\* cap + 1 stays as it is until the next insertion for its owner
C34_AsStated ==
    /\ [](/\ BucketsWithin(mCachedLayerBuffers, MAX_CACHED_BUFFERS_PER_LAYER)
          /\ BucketsWithin(mCachedSecureLayerBuffers, MAX_CACHED_SECURE_BUFFERS_PER_LAYER))
    /\ [][/\ PersistsUntilInsertion(mCachedLayerBuffers, mCachedLayerBuffers',
                                    MAX_CACHED_BUFFERS_PER_LAYER, FALSE)
          /\ PersistsUntilInsertion(mCachedSecureLayerBuffers, mCachedSecureLayerBuffers',
                                    MAX_CACHED_SECURE_BUFFERS_PER_LAYER, TRUE)]_vars

\* C34, amended: in every reachable state every owner's list holds at most
\* cap + 1 Framebuffers; getBuffer does not trim a list of cap + 1: the list
\* stays until the next insertion for its owner empties it before inserting,
\* or until a call other than getBuffer evicts Framebuffers of it
C34_BucketBound ==
    /\ [](/\ BucketsWithin(mCachedLayerBuffers, MAX_CACHED_BUFFERS_PER_LAYER)
          /\ BucketsWithin(mCachedSecureLayerBuffers, MAX_CACHED_SECURE_BUFFERS_PER_LAYER))
    /\ [][/\ PersistsUntilInsertionOrEviction(mCachedLayerBuffers, mCachedLayerBuffers',
                                              MAX_CACHED_BUFFERS_PER_LAYER, FALSE)
          /\ PersistsUntilInsertionOrEviction(mCachedSecureLayerBuffers,
                                              mCachedSecureLayerBuffers',
                                              MAX_CACHED_SECURE_BUFFERS_PER_LAYER, TRUE)]_vars

\* an insertion found the secure list of L1 at cap + 1, emptied it and left
\* the new Framebuffer alone
C34_Witness ==
    /\ pcP = "idle"
    /\ lastOp.op = "getBuffer" /\ ~lastOp.flag /\ lastOp.ret = "NO_ERROR"
    /\ lastOp.moved = MAX_CACHED_SECURE_BUFFERS_PER_LAYER + 1
    /\ Bucket(mCachedSecureLayerBuffers, "L1")
       = <<Framebuffer(lastOp.fbId, mCachedSecureLayerBuffers["L1"][1].desc)>>
    /\ Len(mCleanBuffers) = MAX_CACHED_SECURE_BUFFERS_PER_LAYER + 1

(* ------------------------- reclaim after a signal ---------------------- *)

\* the calls that signal mFlipDone
Signalers == {"flip", "destroyAllSecureBuffers", "uncacheLayerBuffers"}

\* framebuffer f is on the reclaim list, and the last call that moved
\* Framebuffers was one that signals mFlipDone with the list not empty
SignaledOnList(f) ==
    /\ pcP = "idle"
    /\ lastOp.op \in Signalers
    /\ \E i \in 1..Len(mCleanBuffers) : mCleanBuffers[i].fbId = f

\* C35 as stated: with the reclaimer thread scheduled, every framebuffer that
\* is on the reclaim list when flip, destroyAllSecureBuffers or
\* uncacheLayerBuffers signals mFlipDone is eventually removed from the
\* kernel, even if no further call is made, wherever the reclaimer is when
\* the signal is sent
C35_AsStated ==
    \A f \in FbIds : SignaledOnList(f) ~> (rmCount[f] > 0)

\* what holds of C35: a framebuffer that is on the reclaim list when the
\* signal reaches the reclaimer in its wait is eventually removed from the
\* kernel
C35_SignalReceived ==
    \A f \in FbIds :
        (pcR = "woken" /\ \E i \in 1..Len(mCleanBuffers) : mCleanBuffers[i].fbId = f)
        ~> (rmCount[f] > 0)

\* flip signalled while the reclaimer was destroying a batch; the reclaimer
\* has gone back to its wait with the framebuffers of that flip on the
\* reclaim list and no caller is in a call
C35_Stranded ==
    /\ pcR = "wait"
    /\ pcP = "idle"
    /\ lastOp.op = "flip"
    /\ Len(mCleanBuffers) > 0
    /\ \A i \in 1..Len(mCleanBuffers) : rmCount[mCleanBuffers[i].fbId] = 0
    /\ \E f \in FbIds : rmCount[f] > 0

(* ------------------------------ in-use marks --------------------------- *)

\* every owner marked in use is a key of the map, and when an owner of the
\* map is not marked in use the shrink evicts it
ShrinkSound(cached, inuse, cachedNext) ==
    /\ inuse \subseteq DOMAIN cached
    /\ \A o \in DOMAIN cached \ inuse : o \notin DOMAIN cachedNext

\* C36 as stated: whenever flip evaluates a pending shrink, each in-use set
\* holds only owners that are keys of its map, and the comparison of the two
\* sizes does not keep an owner that is not marked in use
C36_AsStated ==
    [][\A hasSecureBuffer \in BOOLEAN :
          Flip(hasSecureBuffer)
          => /\ mCacheShrinkPending
                => ShrinkSound(mCachedLayerBuffers, mCachedLayersInuse, mCachedLayerBuffers')
             /\ (mCacheSecureShrinkPending /\ hasSecureBuffer)
                => ShrinkSound(mCachedSecureLayerBuffers, mCachedSecureLayersInuse,
                               mCachedSecureLayerBuffers')]_vars

\* what holds of C36: an owner is marked in use only while the shrink of its
\* map is pending, and every flip leaves both in-use sets empty
C36_MarkedWhilePending ==
    [][/\ mCachedLayersInuse' # mCachedLayersInuse
          => mCachedLayersInuse' = {} \/ mCacheShrinkPending
       /\ mCachedSecureLayersInuse' # mCachedSecureLayersInuse
          => mCachedSecureLayersInuse' = {} \/ mCacheSecureShrinkPending
       /\ \A hasSecureBuffer \in BOOLEAN :
              Flip(hasSecureBuffer)
              => mCachedLayersInuse' = {} /\ mCachedSecureLayersInuse' = {}]_vars

\* a shrink is pending and the in-use set holds the layer that cleanup took
\* out of the map, so that the set and the map have the same size although
\* the owner left in the map is not marked
C36_StaleMark ==
    /\ pcP = "idle"
    /\ mCacheShrinkPending
    /\ lastOp.op = "cleanup"
    /\ mCachedLayersInuse = {"L1"}
    /\ DOMAIN mCachedLayerBuffers = {NullLayer}

(* ------------------------ cleanup during getBuffer --------------------- *)

\* cleanup(layer) took the layer's Framebuffers while a getBuffer call for
\* the layer was between its lookup, a miss, and its insertion, and that
\* call is still there
CleanedDuringGetBuffer ==
    /\ pcP = "insert"
    /\ lastOp.op = "cleanup" /\ lastOp.flag
    /\ config.layer \notin DOMAIN mCachedLayerBuffers
    /\ config.layer \notin DOMAIN mCachedSecureLayerBuffers

\* C37 as stated: when cleanup(L) returns while a getBuffer call for L is
\* between its miss and its insertion, the insertion does not make L a key
\* of a map again: once both calls have returned the cache has no entry of L
C37_AsStated ==
    [][(CleanedDuringGetBuffer /\ GetBufferInsert)
       => /\ config.layer \notin DOMAIN mCachedLayerBuffers'
          /\ config.layer \notin DOMAIN mCachedSecureLayerBuffers']_vars

\* what holds of C37: the insertion after such a cleanup makes the layer a
\* key again, with the new Framebuffer alone in its list, and the
\* Framebuffers cleanup took are not in it
C37_Recreates ==
    [][(CleanedDuringGetBuffer /\ GetBufferInsert)
       => LET cachedNext == IF config.protection THEN mCachedSecureLayerBuffers'
                            ELSE mCachedLayerBuffers'
          IN  Bucket(cachedNext, config.layer) = <<Framebuffer(fbId, cachedDesc(config))>>]_vars

\* cleanup(L1) returned during a getBuffer call for L1, and the call has
\* returned after it and left its Framebuffer in the list of L1
C37_Recreated ==
    /\ pcP = "idle"
    /\ lastOp.op = "getBuffer" /\ ~lastOp.flag /\ lastOp.ret = "NO_ERROR"
    /\ \E i \in 1..Len(mCleanBuffers) : mCleanBuffers[i].fbId < lastOp.fbId
    /\ LET list == Bucket(mCachedLayerBuffers, "L1") \o Bucket(mCachedSecureLayerBuffers, "L1")
       IN  Len(list) = 1 /\ list[1].fbId = lastOp.fbId

(* ------------------------- vsync to the client ------------------------- *)

\* the step is a vsync callback that went on to the client
ForwardedToClient ==
    /\ pcM = "idle"
    /\ nVsync' # nVsync
    /\ mLastVsyncTimestamp' # mLastVsyncTimestamp

C39_AsStated ==
    [][(CallbackPending /\ pcM = "idle")
       => (periodMatches(mDesiredVsyncPeriod, mVsyncPeriod')
           => within20Percent(mDesiredVsyncPeriod, mVsyncPeriod'))]_vars

\* what holds of C39: the test agrees with the true difference whenever the
\* difference fits an int32_t, and a period it rejects is never within a
\* fifth of the desired period
C39_WithoutWrap ==
    [][(CallbackPending /\ pcM = "idle")
       => /\ 2 * abs(mDesiredVsyncPeriod - mVsyncPeriod') < Int32Span
             => (periodMatches(mDesiredVsyncPeriod, mVsyncPeriod')
                 <=> within20Percent(mDesiredVsyncPeriod, mVsyncPeriod'))
          /\ within20Percent(mDesiredVsyncPeriod, mVsyncPeriod')
             => periodMatches(mDesiredVsyncPeriod, mVsyncPeriod')]_vars

\* the callback measured a period of 2^32 ns and the desired period, and its
\* test took the difference, which the cast wraps to 0, for a match
C39_WrapAccepted ==
    /\ pcM = "idle"
    /\ nVsync > 1
    /\ mDesiredVsyncPeriod = 0
    /\ active_mode = mActiveModeState.mode.id
    /\ mVsyncPeriod = Int32Span + mActiveModeState.mode.te_period
    /\ static_cast_int32(mActiveModeState.mode.te_period - mVsyncPeriod) = 0
    /\ ~mModeSetFence.open

(* ------------------------ ack of a rejected commit --------------------- *)

\* C40 as stated: the ack callback is made only for a commit the kernel
\* accepted, and only after such a commit does deliverWinConfigData make the
\* desired mode the active one; a commit the kernel rejects with EPERM in
\* TUI does neither
C40_AsStated ==
    [][/\ pcM = "commit"
          => (lastCommit'.acks = 1 => lastCommit'.kernelRet = "NO_ERROR")
       /\ (pcM = "post" /\ call.op = "deliverWinConfigData"
           /\ mActiveModeState' # mActiveModeState)
          => lastCommit.kernelRet = "NO_ERROR"]_vars

\* what holds of C40: the callback and the promotion follow the value commit
\* returns, and the only rejected commit that returns 0 is the EPERM in TUI
C40_FollowsReturnValue ==
    [][/\ pcM = "commit"
          => /\ lastCommit'.acks = 1 => lastCommit'.ret = "NO_ERROR"
             /\ lastCommit'.ret = "NO_ERROR"
                => lastCommit'.kernelRet \in {"NO_ERROR", "-EPERM"}
       /\ (pcM = "post" /\ call.op = "deliverWinConfigData"
           /\ mActiveModeState' # mActiveModeState)
          => lastCommit.ret = "NO_ERROR"]_vars

\* the kernel rejected the frame's commit with EPERM in TUI, the ack callback
\* of the mode change was made and the call has made the mode the active one
C40_AckedRejected ==
    /\ pcM = "return"
    /\ call.op = "deliverWinConfigData"
    /\ lastCommit.kernelRet = "-EPERM"
    /\ lastCommit.acks = 1
    /\ mActiveModeState.blob_id # 0
    /\ propValue["mode_id"] # mActiveModeState.blob_id
    /\ vsyncControl

====
